---- MODULE Spec2Model ----
(***************************************************************************)
(* A model of datatest's comparison engine (datatest/validate.py), of the   *)
(* difference factory and the Deviation constructor (datatest/errors.py),  *)
(* and of the allowances (datatest/allow.py).                              *)
(*                                                                         *)
(* The library is synchronous and purely functional: every comparison      *)
(* function is modelled as an operator that computes what the Python code  *)
(* computes, and one action per function applies it to inputs drawn by     *)
(* Init from bounded sets of Python values.                                *)
(***************************************************************************)
EXTENDS Integers, Sequences, FiniteSets, TLC

VARIABLES data, requirement, pc, fn, called, result, times_called,
          allowance, errors

vars == <<data, requirement, pc, fn, called, result, times_called,
          allowance, errors>>

----------------------------------------------------------------------------
(* Bounds of the model.                                                    *)

\* Longest data / requirement sequence drawn by Init.
MaxLen == 3

\* The longest group of differences under one key of a mapping-shaped
\* report, and the largest number given to allow_limit.
MaxGroup == 2
MaxLimit == 2

----------------------------------------------------------------------------
(* Python values.  Every value is a record of one shape so that any two    *)
(* values can be compared: t is the Python type, s the characters of a     *)
(* str, n the number of an int, items the elements of a list, tuple or     *)
(* iterator.                                                               *)

Val(t, s, n, items) == [t |-> t, s |-> s, n |-> n, items |-> items]

StrV(chars) == Val("str", chars, 0, <<>>)
IntV(n) == Val("int", <<>>, n, <<>>)
ListV(xs) == Val("list", <<>>, 0, xs)
TupleV(xs) == Val("tuple", <<>>, 0, xs)
\* iter([...]): iterable, but neither a str nor a collections.Sequence.
IterV(xs) == Val("iter", <<>>, 0, xs)
NoneV == Val("None", <<>>, 0, <<>>)
\* errors.NOTFOUND: the "not found" marker, distinct from None.
NOTFOUND == Val("NOTFOUND", <<>>, 0, <<>>)

\* isinstance(v, str)
IsStr(v) == v.t = "str"

\* isinstance(v, collections.Sequence): str, list and tuple are Sequences.
IsSequence(v) == v.t \in {"str", "list", "tuple"}

\* What iterating over v yields, in order (a str yields its characters).
IterItems(v) ==
    IF v.t = "str" THEN [i \in 1..Len(v.s) |-> StrV(<<v.s[i]>>)]
    ELSE v.items

\* utils.misc._is_nsiterable: iterable, but not a string.
IsNsIterable(v) == v.t \in {"list", "tuple", "iter"}

\* Python's == between two of the modelled values: same type, same content.
PyEq(a, b) == a = b

----------------------------------------------------------------------------
(* Differences (errors.Missing, Extra, Invalid, Deviation): the class and  *)
(* the constructor arguments.                                              *)

Diff(cls, args) == [cls |-> cls, args |-> args]
Missing(x) == Diff("Missing", <<x>>)
Extra(x) == Diff("Extra", <<x>>)
Invalid(x) == Diff("Invalid", <<x>>)

----------------------------------------------------------------------------
(* What a call produces.                                                   *)
(*   kind  "None"            the call returned None                        *)
(*         "AssertionError"  the call returned an AssertionError (err)     *)
(*         "single"          the call returned one difference (items[1])   *)
(*         "iter"            the call returned a lazy iterator: consuming  *)
(*                           it yields items in order and then, when exc   *)
(*                           is not "none", raises exc                     *)
(*         "raise"           the call itself raised exc                    *)
(*   ncmp  how many elements the call compared / evaluated                 *)

NoErr == [prefix |-> "none", index |-> 0, leading |-> <<>>, shown |-> NoneV,
          trailing |-> <<>>, found |-> NoneV, expected |-> NoneV]

Res(kind, items, exc, err, ncmp) ==
    [kind |-> kind, items |-> items, exc |-> exc, err |-> err, ncmp |-> ncmp]

ReturnNone(ncmp) == Res("None", <<>>, "none", NoErr, ncmp)
Raise(exc, ncmp) == Res("raise", <<>>, exc, NoErr, ncmp)
Generator(items, exc, ncmp) == Res("iter", items, exc, NoErr, ncmp)
Unset == Res("unset", <<>>, "none", NoErr, 0)

----------------------------------------------------------------------------
(* _compare_sequence                                                       *)

\* Tokens of the rendered message: '...' and '?????'.
Ellipsis == Val("...", <<>>, 0, <<>>)
Unknown == Val("?????", <<>>, 0, <<>>)

Max(a, b) == IF a >= b THEN a ELSE b

\* itertools.zip_longest(data, sequence, fillvalue=NOTFOUND), as a sequence
\* of <<actual, expected>> pairs (1-based: pair i is Python's index i-1).
ZipLongest(xs, ys) ==
    [i \in 1..Max(Len(xs), Len(ys)) |->
        << IF i <= Len(xs) THEN xs[i] ELSE NOTFOUND,
           IF i <= Len(ys) THEN ys[i] ELSE NOTFOUND >>]

\* The first pair of zipped whose sides differ, or 0 when the loop ends
\* without a break.
FirstMismatch(zipped) ==
    IF \E i \in DOMAIN zipped : ~PyEq(zipped[i][1], zipped[i][2])
    THEN CHOOSE i \in DOMAIN zipped :
            /\ ~PyEq(zipped[i][1], zipped[i][2])
            /\ \A j \in 1..(i - 1) : PyEq(zipped[j][1], zipped[j][2])
    ELSE 0

\* The AssertionError built after the break at pair k (Python index k-1).
SequenceError(zipped, k) ==
    LET index == k - 1
        actual == zipped[k][1]
        expected == zipped[k][2]
        previous_element == IF k > 1 THEN zipped[k - 1][1] ELSE NOTFOUND
        leading_elements ==
            (IF index > 1 THEN <<Ellipsis>> ELSE <<>>)
            \o (IF previous_element # NOTFOUND
                THEN <<previous_element>> ELSE <<>>)
        trailing_elements ==
            IF k + 1 <= Len(zipped)
            THEN <<zipped[k + 1][1]>>
                 \o (IF k + 2 <= Len(zipped) THEN <<Ellipsis>> ELSE <<>>)
            ELSE <<>>
    IN  [prefix |-> IF actual = NOTFOUND THEN "missing"
                    ELSE IF expected = NOTFOUND THEN "extra"
                    ELSE "differs",
         index |-> index,
         leading |-> leading_elements,
         shown |-> IF actual # NOTFOUND THEN actual ELSE Unknown,
         trailing |-> trailing_elements,
         found |-> actual,
         expected |-> expected]

\* Mutant: the loop without its else clause, so that a run without a break
\* falls through to the message for the last index (a NameError when the
\* loop never ran).
CompareSequence_NoElse(d, sequence) ==
    IF IsStr(d) THEN Raise("ValueError", 0)
    ELSE IF ~IsSequence(d) THEN Raise("ValueError", 0)
    ELSE LET zipped == ZipLongest(IterItems(d), IterItems(sequence))
             k == FirstMismatch(zipped)
         IN  IF zipped = <<>> THEN Raise("NameError", 0)
             ELSE IF k = 0
             THEN Res("AssertionError", <<>>, "none",
                      SequenceError(zipped, Len(zipped)), Len(zipped))
             ELSE Res("AssertionError", <<>>, "none",
                      SequenceError(zipped, k), k)

\* Mutant: without the test for a str, whose characters are then compared
\* as the elements of a sequence.
CompareSequence_NoStrTest(d, sequence) ==
    IF ~IsSequence(d) THEN Raise("ValueError", 0)
    ELSE LET zipped == ZipLongest(IterItems(d), IterItems(sequence))
             k == FirstMismatch(zipped)
         IN  IF k = 0 THEN ReturnNone(Len(zipped))
             ELSE Res("AssertionError", <<>>, "none",
                      SequenceError(zipped, k), k)

CompareSequence(d, sequence) ==
    IF IsStr(d) THEN Raise("ValueError", 0)
    ELSE IF ~IsSequence(d) THEN Raise("ValueError", 0)
    ELSE LET zipped == ZipLongest(IterItems(d), IterItems(sequence))
             k == FirstMismatch(zipped)
         IN  IF k = 0 THEN ReturnNone(Len(zipped))
             ELSE Res("AssertionError", <<>>, "none",
                      SequenceError(zipped, k), k)

----------------------------------------------------------------------------
(* _compare_set                                                            *)

Range(xs) == {xs[i] : i \in DOMAIN xs}

\* Every order in which iterating a set S can yield its elements.
Orderings(S) ==
    {f \in [1..Cardinality(S) -> S] : \A i, j \in DOMAIN f : f[i] = f[j] => i = j}

\* Mutant: the test "is iterable" in place of "is a non-string iterable",
\* so that a str is split into its characters.
SetDataElements_SplitsStr(d) ==
    IF d = NOTFOUND THEN <<>>
    ELSE IF ~(IsNsIterable(d) \/ IsStr(d)) THEN <<d>>
    ELSE IterItems(d)

\* The elements _compare_set iterates over: NOTFOUND is an empty list, a
\* string or non-iterable is a one-element list.
SetDataElements(d) ==
    IF d = NOTFOUND THEN <<>>
    ELSE IF ~IsNsIterable(d) THEN <<d>>
    ELSE IterItems(d)

MatchingElements(d, requirement_set) ==
    {x \in Range(SetDataElements(d)) : x \in requirement_set}

ExtraElements(d, requirement_set) ==
    {x \in Range(SetDataElements(d)) : x \notin requirement_set}

\* Mutant: the difference taken with extra_elements instead of
\* matching_elements.
MissingElements_FromExtra(d, requirement_set) ==
    requirement_set \ ExtraElements(d, requirement_set)

MissingElements(d, requirement_set) ==
    requirement_set \ MatchingElements(d, requirement_set)

\* Mutant: extra elements kept in a list, one entry per occurrence in data.
CompareSet_ExtraList(d, requirement_set, mo, eo) ==
    Generator([i \in DOMAIN mo |-> Missing(mo[i])]
              \o SelectSeq([i \in DOMAIN SetDataElements(d) |->
                                Extra(SetDataElements(d)[i])],
                           LAMBDA e : e.args[1] \notin requirement_set),
              "none", Len(SetDataElements(d)))

\* Mutant: the two generators chained the other way round.
CompareSet_ExtraFirst(d, requirement_set, mo, eo) ==
    Generator([i \in DOMAIN eo |-> Extra(eo[i])]
              \o [i \in DOMAIN mo |-> Missing(mo[i])],
              "none", Len(SetDataElements(d)))

\* itertools.chain(missing, extra).  mo and eo are the orders in which the
\* sets missing_elements and extra_elements happen to be iterated.
CompareSet(d, requirement_set, mo, eo) ==
    Generator([i \in DOMAIN mo |-> Missing(mo[i])]
              \o [i \in DOMAIN eo |-> Extra(eo[i])],
              "none", Len(SetDataElements(d)))

----------------------------------------------------------------------------
(* _compare_callable                                                       *)

\* What a call of the predicate does: return True, return False, raise an
\* Exception, return a difference (a DataError instance), or return
\* something else.
Outcomes == {"True", "False", "raise", "diff", "bad"}

\* The difference a predicate returns when its outcome is "diff".
ReturnedDiff == Invalid(StrV(<<"n", "o">>))

\* The positional arguments of the call: function(*element) for a
\* non-string iterable element, function(element) otherwise.
CallArgs(element) ==
    IF IsNsIterable(element) THEN IterItems(element) ELSE <<element>>

\* The elements _compare_callable (and _compare_regex) iterate over.
ElementsOf(d) ==
    IF d = NOTFOUND THEN <<NoneV>>
    ELSE IF ~IsNsIterable(d) THEN <<d>>
    ELSE IterItems(d)

\* The exception raised at a bad return value: the TypeError of line 142,
\* unless reading function.__name__ (line 139) fails first.
BadReturnError(function) ==
    IF function.hasName THEN "TypeError" ELSE "AttributeError"

\* The generator's run over elements xs from position i on: what it yields
\* and how it ends.
RECURSIVE CallableRun(_, _, _)
CallableRun(xs, function, i) ==
    IF i > Len(xs) THEN [items |-> <<>>, exc |-> "none", ncmp |-> 0]
    ELSE LET returned_value == function.table[CallArgs(xs[i])]
             rest == CallableRun(xs, function, i + 1)
         IN  CASE returned_value = "True" ->
                    [rest EXCEPT !.ncmp = @ + 1]
               [] returned_value \in {"False", "raise"} ->
                    [rest EXCEPT !.items = <<Invalid(xs[i])>> \o @,
                                 !.ncmp = @ + 1]
               [] returned_value = "diff" ->
                    [rest EXCEPT !.items = <<ReturnedDiff>> \o @,
                                 !.ncmp = @ + 1]
               [] OTHER ->
                    [items |-> <<>>, exc |-> BadReturnError(function),
                     ncmp |-> 1]

\* The predicate with every outcome `from` replaced by `to`.
WithOutcome(function, from, to) ==
    [function EXCEPT !.table =
        [k \in DOMAIN @ |-> IF @[k] = from THEN to ELSE @[k]]]

\* Mutant: a returned difference handled like False, so that
\* Invalid(element) is reported in its place.
CompareCallable_DiffAsFalse(d, function) ==
    LET run == CallableRun(ElementsOf(d), WithOutcome(function, "diff", "False"), 1)
    IN  Generator(run.items, run.exc, run.ncmp)

\* Mutant: without the try / except, so that an exception raised by the
\* predicate ends the comparison.
CompareCallable_NoExcept(d, function) ==
    LET run == CallableRun(ElementsOf(d), WithOutcome(function, "raise", "bad"), 1)
    IN  Generator(run.items, IF run.exc = "none" THEN "none" ELSE "Exception",
                  run.ncmp)

CompareCallable(d, function) ==
    LET run == CallableRun(ElementsOf(d), function, 1)
    IN  Generator(run.items, run.exc, run.ncmp)

----------------------------------------------------------------------------
(* _compare_regex                                                          *)

\* regex.search(element): a match object, None (no match), or a TypeError
\* for an element that is not text.  A pattern is modelled by the set of
\* strings it matches.
Search(regex, element) ==
    IF ~IsStr(element) THEN "TypeError"
    ELSE IF element \in regex.pat THEN "match"
    ELSE "None"

RECURSIVE RegexRun(_, _, _)
RegexRun(xs, regex, i) ==
    IF i > Len(xs) THEN <<>>
    ELSE (IF Search(regex, xs[i]) = "match" THEN <<>> ELSE <<Invalid(xs[i])>>)
         \o RegexRun(xs, regex, i + 1)

\* Mutant: without the except clause, so that the TypeError of a search on
\* a non-text element ends the comparison.
CompareRegex_NoExcept(d, regex) ==
    LET xs == ElementsOf(d)
        bad == {i \in DOMAIN xs : ~IsStr(xs[i])}
        stop == IF bad = {} THEN Len(xs) + 1
                ELSE CHOOSE i \in bad : \A j \in bad : i <= j
    IN  Generator(RegexRun(SubSeq(xs, 1, stop - 1), regex, 1),
                  IF bad = {} THEN "none" ELSE "TypeError",
                  IF bad = {} THEN Len(xs) ELSE stop)

CompareRegex(d, regex) ==
    Generator(RegexRun(ElementsOf(d), regex, 1), "none", Len(ElementsOf(d)))

----------------------------------------------------------------------------
(* errors._get_error: the difference for two values known to be unequal.   *)

Invalid2(x, expected) == Diff("Invalid", <<x, expected>>)
Deviation(diff, expected) == Diff("Deviation", <<diff, expected>>)

\* A number that is not NaN.
IsNum(v) == v.t = "int"

\* Python's "not v": None, zero and empty strings / collections are false.
IsFalsy(v) ==
    \/ v.t = "None"
    \/ v.t = "int" /\ v.n = 0
    \/ v.t = "str" /\ v.s = <<>>
    \/ v.t \in {"list", "tuple"} /\ v.items = <<>>

\* Mutant: the deviation computed as expected minus actual.
GetError_ExpectedMinusActual(actual, expected, omit_expected) ==
    IF IsNum(actual) /\ IsNum(expected)
    THEN Deviation(IntV(expected.n - actual.n), expected)
    ELSE IF IsNum(actual) /\ (expected = NOTFOUND \/ IsFalsy(expected))
    THEN Deviation(actual, IF expected = NOTFOUND THEN NoneV ELSE expected)
    ELSE IF (actual = NOTFOUND \/ IsFalsy(actual)) /\ IsNum(expected)
    THEN Deviation(IF expected.n = 0
                   THEN (IF actual = NOTFOUND THEN NoneV ELSE actual)
                   ELSE expected,
                   expected)
    ELSE IF expected = NOTFOUND THEN Extra(actual)
    ELSE IF actual = NOTFOUND THEN Missing(expected)
    ELSE IF omit_expected THEN Invalid(actual)
    ELSE Invalid2(actual, expected)

\* Mutant: Deviation.__init__ rejecting every zero expected value.
DeviationInit_RejectsZeroExpected(deviation, expected) ==
    IF \/ ~IsFalsy(expected) /\ IsFalsy(deviation)
       \/ PyEq(expected, IntV(0))
    THEN Raise("ValueError", 0)
    ELSE Res("single", <<Deviation(deviation, expected)>>, "none", NoErr, 0)

\* Deviation.__init__(deviation, expected): a deviation that is empty or
\* zero is rejected when the expected value is not empty, and a zero
\* deviation from a zero expected value is rejected; all else constructs
\* the difference.
DeviationInit(deviation, expected) ==
    IF \/ ~IsFalsy(expected) /\ IsFalsy(deviation)
       \/ PyEq(expected, IntV(0)) /\ PyEq(deviation, IntV(0))
    THEN Raise("ValueError", 0)
    ELSE Res("single", <<Deviation(deviation, expected)>>, "none", NoErr, 0)

GetError(actual, expected, omit_expected) ==
    IF IsNum(actual) /\ IsNum(expected)
    THEN Deviation(IntV(actual.n - expected.n), expected)
    ELSE IF IsNum(actual) /\ (expected = NOTFOUND \/ IsFalsy(expected))
    THEN Deviation(actual, IF expected = NOTFOUND THEN NoneV ELSE expected)
    ELSE IF (actual = NOTFOUND \/ IsFalsy(actual)) /\ IsNum(expected)
    THEN Deviation(IF expected.n = 0
                   THEN (IF actual = NOTFOUND THEN NoneV ELSE actual)
                   ELSE IntV(0 - expected.n),
                   expected)
    ELSE IF expected = NOTFOUND THEN Extra(actual)
    ELSE IF actual = NOTFOUND THEN Missing(expected)
    ELSE IF omit_expected THEN Invalid(actual)
    ELSE Invalid2(actual, expected)

----------------------------------------------------------------------------
(* _compare_other                                                          *)

\* type(self).__ne__(self, arg): "True", "False", "NotImplemented", or
\* "raise".  The built-in types compare values of their own type and return
\* NotImplemented for any other; EqualsAll (an __eq__ that counts its calls
\* and returns True, an __ne__ that returns NotImplemented) and BadClass
\* (an __eq__ that raises, the inherited __ne__ that calls it) are the
\* classes of the tests.
NeMethod(self, arg) ==
    CASE self.t = "EqualsAll" -> "NotImplemented"
      [] self.t = "BadClass" -> "raise"
      [] OTHER -> IF arg.t # self.t THEN "NotImplemented"
                  ELSE IF PyEq(self, arg) THEN "False" ELSE "True"

\* element != other: "True", "False", or "raise" when the comparison
\* raises an exception.  The operator asks element's __ne__, then other's
\* reflected __ne__, and when both return NotImplemented compares
\* identities (two distinct objects are unequal).
PyNe(element, other) ==
    IF NeMethod(element, other) # "NotImplemented"
    THEN NeMethod(element, other)
    ELSE IF NeMethod(other, element) # "NotImplemented"
    THEN NeMethod(other, element)
    ELSE "True"

\* Whether type(v) inherits object.__ne__, the one __ne__ that calls the
\* object's __eq__.
InheritsNe(v) == v.t = "BadClass"

\* How often other.__eq__ is invoked while _compare_other compares the
\* elements xs with other: once for each `element != other` that reaches
\* an inherited __ne__ of other.
TimesCalled(xs, other) ==
    Cardinality({i \in DOMAIN xs :
                    /\ NeMethod(xs[i], other) = "NotImplemented"
                    /\ InheritsNe(other)})

RECURSIVE OtherRun(_, _, _)
OtherRun(xs, other, i) ==
    IF i > Len(xs) THEN <<>>
    ELSE (IF PyNe(xs[i], other) = "False" THEN <<>>
          ELSE <<GetError(xs[i], other, TRUE)>>)
         \o OtherRun(xs, other, i + 1)

\* Mutant: without the try / except, so that an exception raised by a
\* comparison ends the generator.
CompareOther_NoExcept(xs, other) ==
    LET bad == {i \in DOMAIN xs : PyNe(xs[i], other) = "raise"}
        stop == IF bad = {} THEN Len(xs) + 1
                ELSE CHOOSE i \in bad : \A j \in bad : i <= j
    IN  Generator(OtherRun(SubSeq(xs, 1, stop - 1), other, 1),
                  IF bad = {} THEN "none" ELSE "Exception",
                  IF bad = {} THEN Len(xs) ELSE stop)

\* d is the list of elements: _do_comparison has wrapped a single value.
CompareOther(xs, other) ==
    Generator(OtherRun(xs, other, 1), "none", Len(xs))

----------------------------------------------------------------------------
(* _do_comparison                                                          *)

\* Mutant: the dispatch without its "not a str" test.
IsSequenceRequirement_NoStrTest(req) ==
    "Sequence" \in req.caps

\* The test of line 181-182: a Sequence that is not a string.
IsSequenceRequirement(req) ==
    "str" \notin req.caps /\ "Sequence" \in req.caps

\* The strategy the chain of tests selects for a requirement.
Strategy(req) ==
    IF IsSequenceRequirement(req) THEN "_compare_sequence"
    ELSE IF "Set" \in req.caps THEN "_compare_set"
    ELSE IF "callable" \in req.caps THEN "_compare_callable"
    ELSE IF "regex" \in req.caps THEN "_compare_regex"
    ELSE "_compare_other"

\* Mutant: the iterator returned as next() left it, the first difference
\* not put back in front.
FirstElementExit_DropsFirst(gen, is_single_element) ==
    IF gen.items # <<>>
    THEN IF is_single_element
         THEN Res("single", <<gen.items[1]>>, "none", NoErr, gen.ncmp)
         ELSE [gen EXCEPT !.items = Tail(@)]
    ELSE IF gen.exc # "none" THEN Raise(gen.exc, gen.ncmp)
    ELSE ReturnNone(gen.ncmp)

\* first_element = next(result, None), then the three exits: the first
\* difference alone, the iterator with the first difference put back, or
\* None.  A generator that raises before its first yield raises here.
FirstElementExit(gen, is_single_element) ==
    IF gen.items # <<>>
    THEN IF is_single_element
         THEN Res("single", <<gen.items[1]>>, "none", NoErr, gen.ncmp)
         ELSE gen
    ELSE IF gen.exc # "none" THEN Raise(gen.exc, gen.ncmp)
    ELSE ReturnNone(gen.ncmp)

\* isinstance(data, collections.Mapping): no mapping is among the values.
IsMapping(v) == v.t = "dict"

\* The elements the predicate, pattern and equality strategies are given:
\* a single value is wrapped in a list.
DoComparisonElements(d) ==
    IF ~IsNsIterable(d) \/ IsMapping(d) THEN <<d>> ELSE IterItems(d)

DoComparison(d, req, mo, eo) ==
    LET is_single_element == ~IsNsIterable(d) \/ IsMapping(d)
        elements == IF is_single_element THEN ListV(<<d>>) ELSE d
        strategy == Strategy(req)
    IN  CASE strategy = "_compare_sequence" -> CompareSequence(d, req.val)
          [] strategy = "_compare_set" ->
                FirstElementExit(CompareSet(d, req.elems, mo, eo), FALSE)
          [] strategy = "_compare_callable" ->
                FirstElementExit(CompareCallable(elements, req),
                                 is_single_element)
          [] strategy = "_compare_regex" ->
                FirstElementExit(CompareRegex(elements, req),
                                 is_single_element)
          [] OTHER ->
                FirstElementExit(CompareOther(IterItems(elements), req.val),
                                 is_single_element)

----------------------------------------------------------------------------
(* _compare_mapping and _do_mapping_comparison                             *)

\* A dict: items holds its (key, value) pairs in iteration order.
DictV(kvs) == Val("dict", <<>>, 0, kvs)

\* A requirement that is a Mapping: entries holds its <<key, requirement>>
\* pairs in iteration order.
MappingReq(entries) ==
    [caps |-> {"Mapping"}, val |-> Val("object", <<>>, 0, <<>>), elems |-> {},
     pat |-> {}, table |-> <<>>, hasName |-> FALSE, entries |-> entries]

\* The requirement that is the value NOTFOUND: no Sequence, Set, callable
\* or regex, so it is compared by equality.
NotFoundReq ==
    [caps |-> {}, val |-> NOTFOUND, elems |-> {}, pat |-> {}, table |-> <<>>,
     hasName |-> FALSE]

\* mapping.get(key, NOTFOUND)
MappingGet(mapping, key) ==
    IF \E i \in DOMAIN mapping.entries : mapping.entries[i][1] = key
    THEN mapping.entries[CHOOSE i \in DOMAIN mapping.entries :
                            mapping.entries[i][1] = key][2]
    ELSE NotFoundReq

\* data_keys once the first loop has ended.
DataKeys(d) == {d.items[i].items[1] : i \in DOMAIN d.items}

\* The comparisons of the first loop: one per item of data, against the
\* requirement found for its key.
DataSteps(d, mapping) ==
    [i \in DOMAIN d.items |->
        [key |-> d.items[i].items[1], actual |-> d.items[i].items[2],
         expected |-> MappingGet(mapping, d.items[i].items[1]), loop |-> 1]]

\* The comparisons of the second loop: one per item of the requirement whose
\* key is not in data_keys, with NOTFOUND as the data.
MappingSteps(d, mapping) ==
    LET only == SelectSeq(mapping.entries,
                          LAMBDA e : e[1] \notin DataKeys(d))
    IN  [i \in DOMAIN only |->
            [key |-> only[i][1], actual |-> NOTFOUND,
             expected |-> only[i][2], loop |-> 2]]

\* Mutant: the first loop only, so that a key of the requirement that data
\* lacks is never compared.
Steps_DataOnly(d, mapping) == DataSteps(d, mapping)

\* Every comparison _compare_mapping runs when none of them raises.
Steps(d, mapping) == DataSteps(d, mapping) \o MappingSteps(d, mapping)

\* The orders in which the sets of a step's set comparison can be iterated.
StepOrders(st) ==
    IF Strategy(st.expected) = "_compare_set"
    THEN Orderings(MissingElements(st.actual, st.expected.elems))
         \X Orderings(ExtraElements(st.actual, st.expected.elems))
    ELSE {<< <<>>, <<>> >>}

\* One choice of orders for each step.
AllStepOrders(steps) ==
    {o \in [DOMAIN steps -> UNION {StepOrders(steps[i]) : i \in DOMAIN steps}] :
        \A i \in DOMAIN steps : o[i] \in StepOrders(steps[i])}

\* Mutant: the report yielded as it is, a lazy iterator staying lazy.
Materialize_Not(res) == res

\* result = list(result) for a report that is a non-string iterable and no
\* Mapping: the iterator is consumed into a list (kind "list"), and an
\* exception it raises on the way is raised here.  Any other report (None,
\* one difference, an AssertionError) is left as it is.
Materialize(res) ==
    IF res.kind = "iter"
    THEN IF res.exc = "none"
         THEN Res("list", res.items, "none", NoErr, res.ncmp)
         ELSE Raise(res.exc, res.ncmp)
    ELSE res

\* What iterating a report once more yields after it has been iterated to
\* its end: a lazy iterator is exhausted, a list gives its elements again.
SecondPass(res) == IF res.kind = "iter" THEN <<>> ELSE res.items

\* `if result:` -- None is false; a difference, an AssertionError and an
\* iterator are true.
Truthy(res) == res.kind # "None"

\* Mutant: a comparison that raises is skipped and the run goes on with
\* the next key.
RECURSIVE MappingRun_SkipsRaise(_, _, _)
MappingRun_SkipsRaise(steps, ords, i) ==
    IF i > Len(steps) THEN [items |-> <<>>, exc |-> "none", calls |-> <<>>]
    ELSE LET st == steps[i]
             r == DoComparison(st.actual, st.expected, ords[i][1], ords[i][2])
             call == [key |-> st.key, actual |-> st.actual,
                      expected |-> st.expected, report |-> r]
             rest == MappingRun_SkipsRaise(steps, ords, i + 1)
             m == Materialize(r)
         IN  IF r.kind = "raise" \/ (st.loop = 1 /\ ~Truthy(r))
             THEN [rest EXCEPT !.calls = <<call>> \o @]
             ELSE IF m.kind = "raise"
             THEN [items |-> <<>>, exc |-> m.exc, calls |-> <<call>>]
             ELSE [rest EXCEPT
                     !.items = <<[key |-> st.key, report |-> m]>> \o @,
                     !.calls = <<call>> \o @]

\* The generator's run over the steps from position i on: the (key, report)
\* pairs it yields, how it ends, and the calls of _do_comparison it made
\* with what each returned.  The first loop yields under `if result:`, the
\* second loop yields whatever the comparison returned.
RECURSIVE MappingRun(_, _, _)
MappingRun(steps, ords, i) ==
    IF i > Len(steps) THEN [items |-> <<>>, exc |-> "none", calls |-> <<>>]
    ELSE LET st == steps[i]
             r == DoComparison(st.actual, st.expected, ords[i][1], ords[i][2])
             call == [key |-> st.key, actual |-> st.actual,
                      expected |-> st.expected, report |-> r]
             rest == MappingRun(steps, ords, i + 1)
             m == Materialize(r)
         IN  IF r.kind = "raise"
             THEN [items |-> <<>>, exc |-> r.exc, calls |-> <<call>>]
             ELSE IF st.loop = 1 /\ ~Truthy(r)
             THEN [rest EXCEPT !.calls = <<call>> \o @]
             ELSE IF m.kind = "raise"
             THEN [items |-> <<>>, exc |-> m.exc, calls |-> <<call>>]
             ELSE [rest EXCEPT
                     !.items = <<[key |-> st.key, report |-> m]>> \o @,
                     !.calls = <<call>> \o @]

\* The calls of _do_comparison made by _compare_mapping(d, mapping).
MappingCalls(d, mapping, ords) ==
    IF IsMapping(d) THEN MappingRun(Steps(d, mapping), ords, 1).calls
    ELSE <<>>

\* The generator _compare_mapping(d, mapping).  For data that is no
\* Mapping, line 216 reads the global name _is_collection_of_items, which
\* the module neither defines nor imports: the generator raises a
\* NameError when it is first advanced.
CompareMapping(d, mapping, ords) ==
    IF IsMapping(d)
    THEN LET run == MappingRun(Steps(d, mapping), ords, 1)
         IN  Generator(run.items, run.exc, Len(run.calls))
    ELSE Generator(<<>>, "NameError", 0)

\* first_element = next(result, None): a (key, report) tuple is true, so
\* the iterator is returned when it yields anything at all.
DoMappingComparison(d, mapping, ords) ==
    FirstElementExit(CompareMapping(d, mapping, ords), FALSE)

----------------------------------------------------------------------------
(* Allowances (datatest/allow.py): a context manager around a region that  *)
(* may raise a ValidationError.  An allowance is written as an expression: *)
(* BaseAllowance(filterfalse), an elementwise allowance, allow_limit(n),   *)
(* or two of them joined with | or &.                                      *)

\* The differences a ValidationError carries: a flat list (shape "flat",
\* items the differences) or a mapping (shape "mapping", items the
\* key-group pairs, a group being a list of differences).
KeyGroup(key, group) == [key |-> key, group |-> group]

Payload(shape, items) == [shape |-> shape, items |-> items]

\* BaseAllowance(filterfalse): the function keeps the differences in keep
\* and returns them in a container out: "list", "iter" (an iterator),
\* "dict", or "items" (a list of key-value pairs).
BaseAllowance(keep, out) == [kind |-> "base", keep |-> keep, out |-> out]

\* ElementwiseAllowance(predicate), by the name of the predicate.
ElementwiseAllowance(predicate) == [kind |-> "elementwise", pred |-> predicate]

allow_missing == ElementwiseAllowance("missing")
allow_extra == ElementwiseAllowance("extra")
\* allow_args(lambda arg: arg == 'a')
allow_args_is_a == ElementwiseAllowance("args_is_a")
\* allow_key(lambda key: key == 'a')
allow_key_is_a == ElementwiseAllowance("key_is_a")

allow_limit(number) == [kind |-> "limit", number |-> number]

\* left | right and left & right, as written.
Composed(op, left, right) ==
    [kind |-> "composed", op |-> op, left |-> left, right |-> right]

\* predicate(key, difference) of the named elementwise allowances.
Allowed(predicate, key, difference) ==
    CASE predicate = "missing" -> difference.cls = "Missing"
      [] predicate = "extra" -> difference.cls = "Extra"
      [] predicate = "args_is_a" -> difference.args = <<StrV(<<"a">>)>>
      [] predicate = "key_is_a" -> key = StrV(<<"a">>)

\* An allowance object after the operators of its expression have run.
\* An elementwise object holds its predicate as the set of <<key,
\* difference>> pairs it allows (universe: the pairs that can occur); a
\* limit object holds its number and, once composed, the operator and the
\* predicate of the elementwise operand.
ElementwiseObject(allows) == [kind |-> "elementwise", allows |-> allows]
LimitObject(number, op, allows) ==
    [kind |-> "limit", number |-> number, op |-> op, allows |-> allows]

\* Mutant: | between two elementwise allowances built as "both allow".
ElementwiseOr_Both(a, b) == ElementwiseObject(a.allows \cap b.allows)

\* ElementwiseAllowance.__or__: allowed when either predicate allows.
ElementwiseOr(a, b) == ElementwiseObject(a.allows \cup b.allows)

\* Mutant: & between two elementwise allowances built as "either allows".
ElementwiseAnd_Either(a, b) == ElementwiseObject(a.allows \cup b.allows)

\* ElementwiseAllowance.__and__: allowed when both predicates allow.
ElementwiseAnd(a, b) == ElementwiseObject(a.allows \cap b.allows)

\* allow_limit.__or__ and __and__ with an elementwise allowance.
LimitCompose(op, limit, other) == LimitObject(limit.number, op, other.allows)

\* Mutant: the reflected operators of allow_limit wired to the opposite
\* combinator.
LimitReflected_Crossed(op, limit, other) ==
    LimitCompose(IF op = "or" THEN "and" ELSE "or", limit, other)

\* allow_limit.__ror__ and __rand__, called for `elementwise | limit` and
\* `elementwise & limit` after the elementwise operand has declined: they
\* are wired to __or__ and __and__.
LimitReflected(op, limit, other) == LimitCompose(op, limit, other)

\* The object an expression evaluates to; universe is the set of <<key,
\* difference>> pairs predicates are tabulated over.
Operand(e, universe) ==
    CASE e.kind = "elementwise" ->
            ElementwiseObject({kd \in universe : Allowed(e.pred, kd[1], kd[2])})
      [] e.kind = "limit" -> LimitObject(e.number, "none", {})
      [] OTHER -> e

Evaluate(e, universe) ==
    IF e.kind # "composed" THEN Operand(e, universe)
    ELSE LET l == Operand(e.left, universe)
             r == Operand(e.right, universe)
         IN  CASE l.kind = "elementwise" /\ r.kind = "elementwise" ->
                    IF e.op = "or" THEN ElementwiseOr(l, r)
                    ELSE ElementwiseAnd(l, r)
               [] l.kind = "limit" /\ r.kind = "elementwise" ->
                    LimitCompose(e.op, l, r)
               [] l.kind = "elementwise" /\ r.kind = "limit" ->
                    LimitReflected(e.op, r, l)

\* What a filterfalse call returns: the container ("list", "iter", "dict",
\* or "items", an iterable of key-value pairs) and what it holds.
Filtered(container, items) == [container |-> container, items |-> items]

\* Differences of a payload as <<key, difference>> pairs, in order; the key
\* of a flat payload's differences is None.
RECURSIVE KeyedDifferences(_)
KeyedDifferences(payload) ==
    IF payload.shape = "flat"
    THEN [i \in DOMAIN payload.items |-> <<NoneV, payload.items[i]>>]
    ELSE IF payload.items = <<>> THEN <<>>
    ELSE LET head == payload.items[1]
         IN  [i \in DOMAIN head.group |-> <<head.key, head.group[i]>>]
             \o KeyedDifferences(Payload("mapping", Tail(payload.items)))

\* Keep the pairs of a mapping payload whose group is not empty.
NonemptyGroups(pairs) == SelectSeq(pairs, LAMBDA kv : kv.group # <<>>)

\* The filterfalse functions given to BaseAllowance in the tests: they
\* return the differences in keep, in a container of their own choosing
\* (a dict or a list of items is keyed by the payload's keys, or by 'a' for
\* a flat payload).
BaseFilterfalse(keep, out, payload) ==
    LET kept(group) == SelectSeq(group, LAMBDA d : d \in keep)
        flat == [i \in DOMAIN KeyedDifferences(payload) |->
                    KeyedDifferences(payload)[i][2]]
        pairs == IF payload.shape = "mapping"
                 THEN [i \in DOMAIN payload.items |->
                          KeyGroup(payload.items[i].key,
                                   kept(payload.items[i].group))]
                 ELSE <<KeyGroup(StrV(<<"a">>), kept(payload.items))>>
    IN  IF out \in {"list", "iter"}
        THEN Filtered(out, kept(flat))
        ELSE Filtered(out, NonemptyGroups(pairs))

\* ElementwiseAllowance.filterfalse: the differences the predicate does not
\* allow; a key whose whole group is allowed is dropped.
ElementwiseFilterfalse(allows, payload) ==
    LET rest(key, group) ==
            SelectSeq(group, LAMBDA d : <<key, d>> \notin allows)
    IN  IF payload.shape = "flat"
        THEN Filtered("iter", rest(NoneV, payload.items))
        ELSE Filtered("items", NonemptyGroups(
                 [i \in DOMAIN payload.items |->
                     KeyGroup(payload.items[i].key,
                              rest(payload.items[i].key,
                                   payload.items[i].group))]))

\* Mutant: allow_limit letting the first `number` differences pass.
LimitGroup_FirstN(limit, key, group) ==
    IF Len(group) <= limit.number THEN <<>>
    ELSE SubSeq(group, limit.number + 1, Len(group))

\* allow_limit on one scope (the flat list, or one key's group).
\*   plain    the scope passes when it holds at most `number` differences;
\*   | E      differences E allows pass; the others are counted, and pass
\*            when there are at most `number` of them; once the count is
\*            exceeded the buffered ones and everything after them remain;
\*   & E      differences E does not allow remain; the others are counted
\*            and buffered, and pass when there are at most `number`; once
\*            the count is exceeded the buffer and everything after remain.
LimitGroup(limit, key, group) ==
    LET ok(d) == <<key, d>> \in limit.allows
        counted(d) == IF limit.op = "or" THEN ~ok(d) ELSE ok(d)
        \* positions of the counted differences
        pos == {i \in DOMAIN group : counted(group[i])}
        \* where the count first exceeds number (0 when it never does)
        over == IF Cardinality(pos) <= limit.number THEN 0
                ELSE CHOOSE i \in pos :
                        Cardinality({j \in pos : j <= i}) = limit.number + 1
        before == SubSeq(group, 1, over)
        after == SubSeq(group, over + 1, Len(group))
    IN  CASE limit.op = "none" ->
                IF Len(group) <= limit.number THEN <<>> ELSE group
          [] limit.op = "or" ->
                IF over = 0 THEN <<>>
                ELSE SelectSeq(before, LAMBDA d : ~ok(d)) \o after
          [] limit.op = "and" ->
                IF over = 0 THEN SelectSeq(group, LAMBDA d : ~ok(d))
                ELSE SelectSeq(before, LAMBDA d : ~ok(d))
                     \o SelectSeq(before, ok) \o after

\* allow_limit.filterfalse.
LimitFilterfalse(limit, payload) ==
    IF payload.shape = "flat"
    THEN Filtered("iter", LimitGroup(limit, NoneV, payload.items))
    ELSE Filtered("items", NonemptyGroups(
             [i \in DOMAIN payload.items |->
                 KeyGroup(payload.items[i].key,
                          LimitGroup(limit, payload.items[i].key,
                                     payload.items[i].group))]))

\* The <<key, difference>> pairs over which predicates are tabulated.
Universe(payload) ==
    {KeyedDifferences(payload)[i] : i \in DOMAIN KeyedDifferences(payload)}

\* self.filterfalse(exc_value.errors) of an allowance expression.
Filterfalse(e, payload) ==
    LET obj == Evaluate(e, Universe(payload))
    IN  CASE obj.kind = "base" -> BaseFilterfalse(obj.keep, obj.out, payload)
          [] obj.kind = "elementwise" ->
                ElementwiseFilterfalse(obj.allows, payload)
          [] obj.kind = "limit" -> LimitFilterfalse(obj, payload)

\* No ValidationError was raised in the protected region.
NoErrors == Payload("none", <<>>)

\* Mutant: __exit__ suppressing only an empty list, so that an exhausted
\* iterator is re-raised with no differences.
Exit_ListOnly(e, raised) ==
    IF raised = NoErrors THEN Res("noop", <<>>, "none", NoErr, 0)
    ELSE LET out == Filterfalse(e, raised)
         IN  IF out.items = <<>> /\ out.container = "list"
             THEN Res("suppressed", <<>>, "none", NoErr, 0)
             ELSE Res("reraised", out.items, "ValidationError", NoErr, 0)

\* BaseAllowance.__exit__(exc_type, exc_value, tb): what leaving the
\* protected region does.
\*   "noop"        nothing was raised, nothing is done
\*   "suppressed"  the ValidationError is swallowed
\*   "reraised"    a ValidationError with differences `items` is raised
\*   "raise"       TypeError: the container of the remainder does not
\*                 match the container of the differences
Exit(e, raised) ==
    IF raised = NoErrors THEN Res("noop", <<>>, "none", NoErr, 0)
    ELSE LET out == Filterfalse(e, raised)
             mappable_in == raised.shape = "mapping"
             mappable_out == out.container \in {"dict", "items"}
         IN  IF out.items = <<>>
             THEN Res("suppressed", <<>>, "none", NoErr, 0)
             ELSE IF mappable_in # mappable_out
             THEN Raise("TypeError", 0)
             ELSE Res("reraised", out.items, "ValidationError", NoErr, 0)

----------------------------------------------------------------------------
(* Inputs.                                                                 *)

A == StrV(<<"a">>)
B == StrV(<<"b">>)
AB == StrV(<<"a", "b">>)
One == IntV(1)
Pair == TupleV(<<A, One>>)

\* All sequences over S of length at most n.
SeqsUpTo(S, n) == UNION {[1..k -> S] : k \in 0..n}

\* A requirement: the capabilities the dispatch tests (str, Sequence, Set,
\* callable, compiled regex) and the content each strategy uses: val the
\* requirement as a value (its elements when a Sequence), elems the members
\* of a Set, pat the strings a regex matches, table what a callable does
\* with each argument list, hasName whether it has a __name__.
Req(caps, val, elems, pat, table, hasName) ==
    [caps |-> caps, val |-> val, elems |-> elems, pat |-> pat,
     table |-> table, hasName |-> hasName]

NoTable == <<>>
Opaque == Val("object", <<>>, 0, <<>>)

ListReq(xs) == Req({"Sequence"}, ListV(xs), {}, {}, NoTable, FALSE)
StrReq(v) == Req({"str", "Sequence"}, v, {}, {}, NoTable, FALSE)
ScalarReq(v) == Req({}, v, {}, {}, NoTable, FALSE)
SetReq(S) == Req({"Set"}, Opaque, S, {}, NoTable, FALSE)
RegexReq(P) == Req({"regex"}, Opaque, {}, P, NoTable, FALSE)
\* A function or lambda (hasName) or an instance with __call__ (no name).
FuncReq(table, hasName) == Req({"callable"}, Opaque, {}, {}, table, hasName)

\* The elements of compared sequences and sets.
Elems == {A, B, AB}

\* _compare_sequence: lists, and data that is no Sequence or is a string.
SequenceData ==
    {ListV(xs) : xs \in SeqsUpTo(Elems, MaxLen)}
    \cup {TupleV(xs) : xs \in SeqsUpTo(Elems, 1)}
    \cup {IterV(xs) : xs \in SeqsUpTo(Elems, 1)}
    \cup {A, AB, One, NoneV, NOTFOUND}

SequenceReqs == {ListReq(xs) : xs \in SeqsUpTo(Elems, MaxLen)}

InitSequence ==
    /\ data \in SequenceData
    /\ requirement \in SequenceReqs

\* _compare_set: lists and iterators with repeated elements, single
\* values, NOTFOUND.
SetData ==
    {ListV(xs) : xs \in SeqsUpTo(Elems, MaxLen)}
    \cup {IterV(xs) : xs \in SeqsUpTo(Elems, 1)}
    \cup {A, AB, One, NOTFOUND}

SetReqs == {SetReq(S) : S \in SUBSET Elems}

InitSet ==
    /\ data \in SetData
    /\ requirement \in SetReqs

\* _compare_callable: a string, a tuple (unpacked into two arguments), and
\* the None / NOTFOUND a missing value is evaluated as.
PredElems == {A, Pair}
PredKeys == {CallArgs(e) : e \in PredElems \cup {NoneV, NOTFOUND}}

CallableData ==
    {ListV(xs) : xs \in SeqsUpTo(PredElems, MaxLen)}
    \cup {A, NOTFOUND}

CallableReqs ==
    {FuncReq(t, n) : t \in [PredKeys -> Outcomes], n \in BOOLEAN}

InitCallable ==
    /\ data \in CallableData
    /\ requirement \in CallableReqs

\* The dispatch: every shape of requirement, among them objects with
\* several capabilities (a str or list or set subclass with __call__, a
\* class that is both a Sequence and a Set).
DispatchElems == {A, B, One}

AlwaysFalse ==
    [k \in {CallArgs(e) : e \in DispatchElems \cup {AB, NoneV, NOTFOUND}}
        |-> "False"]

DispatchReqs ==
    {Req(caps, v, S, P, AlwaysFalse, TRUE) :
        caps \in {{"str", "Sequence", "callable"}, {"Sequence", "callable"},
                  {"Set", "callable"}, {"Sequence", "Set"}},
        v \in {ListV(<<A>>)}, S \in {{A}}, P \in {{}}}
    \cup {StrReq(v) : v \in {A, AB}}
    \cup {ScalarReq(v) : v \in {One, NoneV}}
    \cup {RegexReq(P) : P \in SUBSET {A, AB}}

DispatchData ==
    {ListV(xs) : xs \in SeqsUpTo(DispatchElems, 2)}
    \cup DispatchElems \cup {AB, NOTFOUND}

InitDispatch ==
    /\ data \in DispatchData
    /\ requirement \in DispatchReqs

\* _compare_regex: lists of strings and of a number (searching a number
\* is a TypeError), with repeated elements; a pattern matches some of the
\* strings.
RegexElems == {A, B, One}

RegexData ==
    {ListV(xs) : xs \in SeqsUpTo(RegexElems, MaxLen)} \cup {A, One, NOTFOUND}

RegexReqs == {RegexReq(P) : P \in SUBSET {A, B}}

InitRegex ==
    /\ data \in RegexData
    /\ requirement \in RegexReqs

\* _compare_other: numbers, strings and an instance of BadClass, as
\* elements of a list or alone; the requirement is a number, a string or
\* an instance of EqualsAll.
EqualsAll == Val("EqualsAll", <<>>, 0, <<>>)
Bad == Val("BadClass", <<>>, 0, <<>>)

OtherElems == {One, A, Bad}

OtherData ==
    {ListV(xs) : xs \in SeqsUpTo(OtherElems, MaxLen)} \cup OtherElems \cup {AB}

OtherReqs == {ScalarReq(One), StrReq(A), ScalarReq(EqualsAll)}

InitOther ==
    /\ data \in OtherData
    /\ requirement \in OtherReqs

\* _compare_mapping: dicts and mapping requirements with keys among 'a'
\* and 'b', in either order, and data that is a list (of strings, or of one
\* key-value pair).
MapKeys == {A, B}

\* The sequences of distinct keys.
KeyOrders == UNION {Orderings(K) : K \in SUBSET MapKeys}

MapValues == {A, B, One, ListV(<<A>>), ListV(<<A, B>>)}

\* Predicates: one that accepts every argument (None and NOTFOUND too),
\* and one that returns False for 'a' and something unusable for 'b'.
AcceptAll == [k \in DOMAIN AlwaysFalse |-> "True"]
FalseThenBad ==
    [k \in DOMAIN AlwaysFalse |-> IF k = <<B>> THEN "bad" ELSE "False"]

MapValueReqs ==
    {ScalarReq(A), ScalarReq(One), SetReq({}), SetReq({A, B}),
     ListReq(<<A>>), FuncReq(AcceptAll, TRUE), FuncReq(FalseThenBad, TRUE)}

MappingData ==
    UNION {{DictV([i \in DOMAIN ks |-> TupleV(<<ks[i], vs[i]>>)]) :
                vs \in [DOMAIN ks -> MapValues]} : ks \in KeyOrders}
    \cup {ListV(<<A, B>>), ListV(<<TupleV(<<A, B>>)>>)}

MappingReqs ==
    UNION {{MappingReq([i \in DOMAIN ks |-> <<ks[i], rs[i]>>]) :
                rs \in [DOMAIN ks -> MapValueReqs]} : ks \in KeyOrders}

InitMapping ==
    /\ data \in MappingData
    /\ requirement \in MappingReqs

\* Allowances: the differences raised inside the protected region and the
\* allowance expressions guarding it.
AllowDiffs == {Missing(A), Missing(B), Extra(A), Extra(B)}
GroupDiffs == {Missing(A), Extra(B)}
AllowKeys == {A, B}

FlatPayloads == {Payload("flat", ds) : ds \in SeqsUpTo(AllowDiffs, MaxLen) \ {<<>>}}

Groups == SeqsUpTo(GroupDiffs, MaxGroup) \ {<<>>}
MappingPayloads ==
    UNION {{Payload("mapping", [i \in DOMAIN ks |-> KeyGroup(ks[i], gs[i])]) :
               gs \in [DOMAIN ks -> Groups]} :
           ks \in {<<A>>, <<B>>, <<A, B>>, <<B, A>>}}

Payloads == FlatPayloads \cup MappingPayloads

Elementwise == {allow_missing, allow_extra, allow_args_is_a, allow_key_is_a}
Limits == {allow_limit(n) : n \in 0..MaxLimit}
Allowances ==
    {BaseAllowance(keep, out) :
        keep \in {{}, {Missing(A)}, AllowDiffs},
        out \in {"list", "iter", "dict", "items"}}
    \cup Elementwise
    \cup Limits
    \cup {Composed(op, l, r) :
            op \in {"or", "and"}, l \in Elementwise, r \in Elementwise}
    \cup {Composed(op, l, r) :
            op \in {"or", "and"}, l \in Limits, r \in Elementwise}
    \cup {Composed(op, l, r) :
            op \in {"or", "and"}, l \in Elementwise, r \in Limits}

\* No allowance guards the comparison functions called on their own.
NoAllowance == [kind |-> "none"]

InitAllow ==
    /\ allowance \in Allowances
    /\ errors = NoErrors
    /\ data = NoneV
    /\ requirement = ScalarReq(NoneV)
    /\ pc = "protected"

\* The difference factory and the Deviation constructor: two values known
\* to differ (numbers, None, the not-found sentinel, strings).
DifferenceValues == {IntV(0), IntV(5), IntV(6), NoneV, NOTFOUND, A, B}

InitDifference ==
    /\ data \in DifferenceValues
    /\ requirement \in {ScalarReq(v) : v \in DifferenceValues}
    /\ ~PyEq(data, requirement.val)
    /\ allowance = NoAllowance
    /\ errors = NoErrors
    /\ pc = "differ"

Init ==
    /\ \/ /\ \/ InitSequence
             \/ InitSet
             \/ InitCallable
             \/ InitDispatch
             \/ InitRegex
             \/ InitOther
             \/ InitMapping
          /\ pc = "ready"
          /\ allowance = NoAllowance
          /\ errors = NoErrors
       \/ InitAllow
       \/ InitDifference
    /\ fn = "none"
    /\ called = <<>>
    /\ result = Unset
    /\ times_called = 0

----------------------------------------------------------------------------
(* Actions: one per function of validate.py.  fn is the function called,   *)
(* called the comparison functions it invoked in turn.                     *)

\* _compare_sequence(data, sequence).
CallCompareSequence ==
    /\ pc = "ready"
    /\ IsSequenceRequirement(requirement)
    /\ result' = CompareSequence(data, requirement.val)
    /\ fn' = "_compare_sequence"
    /\ called' = <<>>
    /\ pc' = "done"
    /\ UNCHANGED <<data, requirement, times_called, allowance, errors>>

\* _compare_set(data, requirement_set).
CallCompareSet ==
    /\ pc = "ready"
    /\ "Set" \in requirement.caps
    /\ \E mo \in Orderings(MissingElements(data, requirement.elems)),
          eo \in Orderings(ExtraElements(data, requirement.elems)) :
          result' = CompareSet(data, requirement.elems, mo, eo)
    /\ fn' = "_compare_set"
    /\ called' = <<>>
    /\ pc' = "done"
    /\ UNCHANGED <<data, requirement, times_called, allowance, errors>>

\* _compare_callable(data, function), consumed to its end.
CallCompareCallable ==
    /\ pc = "ready"
    /\ "callable" \in requirement.caps
    /\ result' = CompareCallable(data, requirement)
    /\ fn' = "_compare_callable"
    /\ called' = <<>>
    /\ pc' = "done"
    /\ UNCHANGED <<data, requirement, times_called, allowance, errors>>

\* _compare_regex(data, regex), consumed to its end.
CallCompareRegex ==
    /\ pc = "ready"
    /\ "regex" \in requirement.caps
    /\ result' = CompareRegex(data, requirement)
    /\ fn' = "_compare_regex"
    /\ called' = <<>>
    /\ pc' = "done"
    /\ UNCHANGED <<data, requirement, times_called, allowance, errors>>

\* _compare_other(data, other), consumed to its end; data is iterated.
CallCompareOther ==
    /\ pc = "ready"
    /\ requirement.caps \subseteq {"str", "Sequence"}
    /\ IsNsIterable(data)
    /\ result' = CompareOther(IterItems(data), requirement.val)
    /\ times_called' = TimesCalled(IterItems(data), requirement.val)
    /\ fn' = "_compare_other"
    /\ called' = <<>>
    /\ pc' = "done"
    /\ UNCHANGED <<data, requirement, allowance, errors>>

\* _do_comparison(data, requirement), for a requirement that is not a
\* Mapping (which the callers hand to _do_mapping_comparison).
CallDoComparison ==
    /\ pc = "ready"
    /\ "Mapping" \notin requirement.caps
    /\ \E mo \in IF Strategy(requirement) = "_compare_set"
                   THEN Orderings(MissingElements(data, requirement.elems))
                   ELSE {<<>>},
          eo \in IF Strategy(requirement) = "_compare_set"
                   THEN Orderings(ExtraElements(data, requirement.elems))
                   ELSE {<<>>} :
          result' = DoComparison(data, requirement, mo, eo)
    /\ fn' = "_do_comparison"
    /\ called' = <<Strategy(requirement)>>
    /\ times_called' = IF Strategy(requirement) = "_compare_other"
                       THEN TimesCalled(DoComparisonElements(data),
                                        requirement.val)
                       ELSE 0
    /\ pc' = "done"
    /\ UNCHANGED <<data, requirement, allowance, errors>>

\* _compare_mapping(data, mapping), consumed to its end.  called holds the
\* calls of _do_comparison it made.
CallCompareMapping ==
    /\ pc = "ready"
    /\ "Mapping" \in requirement.caps
    /\ \E ords \in IF IsMapping(data)
                    THEN AllStepOrders(Steps(data, requirement))
                    ELSE {<<>>} :
          /\ result' = CompareMapping(data, requirement, ords)
          /\ called' = MappingCalls(data, requirement, ords)
    /\ fn' = "_compare_mapping"
    /\ pc' = "done"
    /\ UNCHANGED <<data, requirement, times_called, allowance, errors>>

\* _do_mapping_comparison(data, mapping); the iterator it returns is
\* consumed to its end.
CallDoMappingComparison ==
    /\ pc = "ready"
    /\ "Mapping" \in requirement.caps
    /\ \E ords \in IF IsMapping(data)
                    THEN AllStepOrders(Steps(data, requirement))
                    ELSE {<<>>} :
          /\ result' = DoMappingComparison(data, requirement, ords)
          /\ called' = MappingCalls(data, requirement, ords)
    /\ fn' = "_do_mapping_comparison"
    /\ pc' = "done"
    /\ UNCHANGED <<data, requirement, times_called, allowance, errors>>

\* `raise ValidationError(message, differences)` inside the protected
\* region of `with allowance:`.
RaiseValidationError ==
    /\ pc = "protected"
    /\ errors' \in Payloads
    /\ pc' = "raised"
    /\ UNCHANGED <<data, requirement, fn, called, result, times_called,
                   allowance>>

\* allowance.__exit__: the region is left, by the raise or by running to
\* its end.
AllowanceExit ==
    /\ pc \in {"protected", "raised"}
    /\ result' = Exit(allowance, errors)
    /\ fn' = "__exit__"
    /\ pc' = "done"
    /\ UNCHANGED <<data, requirement, called, times_called, allowance, errors>>

\* _get_error(actual, expected, omit_expected) on two differing values.
CallGetError ==
    /\ pc = "differ"
    /\ \E omit_expected \in BOOLEAN :
          result' = Res("single",
                        <<GetError(data, requirement.val, omit_expected)>>,
                        "none", NoErr, 0)
    /\ fn' = "_get_error"
    /\ pc' = "done"
    /\ UNCHANGED <<data, requirement, called, times_called, allowance, errors>>

\* Deviation(deviation, expected), both numbers or None.
CallDeviation ==
    /\ pc = "differ"
    /\ data.t \in {"int", "None"}
    /\ requirement.val.t \in {"int", "None"}
    /\ result' = DeviationInit(data, requirement.val)
    /\ fn' = "Deviation"
    /\ pc' = "done"
    /\ UNCHANGED <<data, requirement, called, times_called, allowance, errors>>

Next ==
    \/ CallGetError
    \/ CallDeviation
    \/ RaiseValidationError
    \/ AllowanceExit
    \/ CallCompareSequence
    \/ CallCompareSet
    \/ CallCompareCallable
    \/ CallCompareRegex
    \/ CallCompareOther
    \/ CallDoComparison
    \/ CallCompareMapping
    \/ CallDoMappingComparison

Spec == Init /\ [][Next]_vars

----------------------------------------------------------------------------
(* Properties.                                                             *)

Done(f) == pc = "done" /\ fn = f

\* C1: the dispatch runs exactly one strategy, chosen from the
\* requirement's shape in the order: Sequence that is not a str, Set,
\* callable, compiled regex, equality; a str requirement is never compared
\* as a sequence (neither by name nor by outcome).
C1_DispatchPriority ==
    Done("_do_comparison") =>
        LET c == requirement.caps
            seq == "Sequence" \in c /\ "str" \notin c
        IN  /\ Len(called) = 1
            /\ called[1] = "_compare_sequence" <=> seq
            /\ called[1] = "_compare_set" <=> (~seq /\ "Set" \in c)
            /\ called[1] = "_compare_callable" <=>
                    (~seq /\ "Set" \notin c /\ "callable" \in c)
            /\ called[1] = "_compare_regex" <=>
                    (~seq /\ c \cap {"Set", "callable"} = {} /\ "regex" \in c)
            /\ called[1] = "_compare_other" <=>
                    (~seq /\ c \cap {"Set", "callable", "regex"} = {})
            /\ "str" \in c =>
                    /\ result.kind # "AssertionError"
                    /\ result.exc # "ValueError"
                    /\ (IsNsIterable(data) /\ "callable" \notin c
                        /\ IterItems(data) = IterItems(requirement.val)
                        /\ Len(requirement.val.s) > 1)
                            => result.kind # "None"

\* C1 witness: a str requirement (a Sequence) was dispatched to equality
\* comparison, and a callable str to the predicate comparison.
C1_Witness ==
    /\ Done("_do_comparison")
    /\ requirement.caps = {"str", "Sequence"}
    /\ called = <<"_compare_other">>
    /\ data = ListV(<<A, B>>)
    /\ requirement.val = AB
    /\ result.kind = "iter"

\* Data that _compare_sequence accepts: a Sequence that is not a str.
IsSequenceData == IsSequence(data) /\ ~IsStr(data)

Abs(n) == IF n < 0 THEN 0 - n ELSE n

\* C2: sequence comparison reports every divergence: whenever it returns,
\* the result is None or a mapping of differences with an entry for each
\* unmatched element, so at least as many entries as the lengths differ by
\* (and a result without entries only for equal sequences).
C2_ReportsEveryDivergence ==
    (Done("_compare_sequence") /\ IsSequenceData) =>
        /\ result.kind \in {"None", "mapping"}
        /\ Len(result.items) >=
                Abs(Len(IterItems(data)) - Len(IterItems(requirement.val)))
        /\ result.items = <<>> =>
                IterItems(data) = IterItems(requirement.val)

\* C3: data whose elements equal the requirement's elements position by
\* position (same length) gives None, whether _compare_sequence is called
\* directly or through the dispatch.
C3_EqualSequencesGiveNone ==
    (pc = "done" /\ fn \in {"_compare_sequence", "_do_comparison"}
     /\ IsSequenceRequirement(requirement) /\ IsSequenceData
     /\ Len(IterItems(data)) = Len(IterItems(requirement.val))
     /\ \A i \in 1..Len(IterItems(data)) :
            IterItems(data)[i] = IterItems(requirement.val)[i])
        => result.kind = "None"

\* C3 witness: a three-element list was compared with an equal list, and a
\* tuple with a list of the same elements.
C3_Witness ==
    /\ Done("_compare_sequence")
    /\ data.t = "list"
    /\ Len(data.items) = 3
    /\ data.items = requirement.val.items
    /\ data.items[1] # data.items[2]
    /\ result.kind = "None"

\* C4 as stated: data that is a str or not a Sequence makes sequence
\* comparison raise a TypeError before any element is compared.
C4_RaisesTypeError ==
    (Done("_compare_sequence") /\ ~IsSequenceData) =>
        /\ result.kind = "raise"
        /\ result.exc = "TypeError"
        /\ result.ncmp = 0

\* C4 amended: data that is a str or not a Sequence makes sequence
\* comparison raise a ValueError before any element is compared (also
\* through the dispatch); no report is returned for such data.
C4_RaisesValueError ==
    (pc = "done" /\ fn \in {"_compare_sequence", "_do_comparison"}
     /\ IsSequenceRequirement(requirement) /\ ~IsSequenceData) =>
        /\ result.kind = "raise"
        /\ result.exc = "ValueError"
        /\ result.ncmp = 0
        /\ result.items = <<>>
        /\ result.err = NoErr

\* C4 witness: the str 'ab' was compared with a list of its characters and
\* raised.
C4_Witness ==
    /\ Done("_compare_sequence")
    /\ data = AB
    /\ requirement.val = ListV(<<A, B>>)
    /\ result.kind = "raise"

\* The distinct elements of data that is a list or an iterator.
DataSet == Range(data.items)

\* A call of set comparison, direct or through the dispatch, of data that
\* is a list or an iterator.
SetComparisonOfIterable ==
    /\ pc = "done"
    /\ \/ fn = "_compare_set"
       \/ fn = "_do_comparison" /\ called = <<"_compare_set">>
    /\ data.t \in {"list", "iter"}

\* C5: with S the requirement set, data whose distinct elements are S
\* yields no difference; S plus one x not in S yields exactly Extra(x); S
\* minus one x of S yields exactly Missing(x).
C5_SetLaws ==
    SetComparisonOfIterable =>
        LET S == requirement.elems
        IN  /\ DataSet = S => result.items = <<>>
            /\ \A x \in DataSet \ S :
                    DataSet = S \cup {x} => result.items = <<Extra(x)>>
            /\ \A x \in S :
                    DataSet = S \ {x} => result.items = <<Missing(x)>>

\* C5 witness: data with the two elements of S and one more gave that one
\* as the only difference.
C5_Witness ==
    /\ Done("_compare_set")
    /\ Cardinality(requirement.elems) = 2
    /\ requirement.elems \subseteq DataSet
    /\ \E x \in DataSet \ requirement.elems : result.items = <<Extra(x)>>

\* C6: for any data, repeated elements included, the differences are
\* exactly one Extra(v) per distinct data value v outside the requirement
\* set and one Missing(v) per requirement value v that never occurs in
\* data; none twice, and no value both Missing and Extra.
C6_CompleteNoDuplicates ==
    SetComparisonOfIterable =>
        LET S == requirement.elems
            items == result.items
        IN  /\ Range(items) = {Extra(v) : v \in DataSet \ S}
                              \cup {Missing(v) : v \in S \ DataSet}
            /\ \A i, j \in DOMAIN items : items[i] = items[j] => i = j
            /\ \A i, j \in DOMAIN items :
                    i # j => items[i].args # items[j].args

\* C6 witness: data holding one extra value three times gave one Extra, and
\* a missing value one Missing.
C6_Witness ==
    /\ Done("_compare_set")
    /\ data.t = "list"
    /\ Len(data.items) = 3
    /\ Cardinality(DataSet) = 1
    /\ Len(result.items) = 2
    /\ result.items[1].cls = "Missing"
    /\ result.items[2] = Extra(data.items[1])

\* C7: NOTFOUND is compared as an empty collection (every requirement
\* element Missing, nothing Extra); a str or other non-iterable is compared
\* as the one-element collection of that value, never as its characters.
C7_SetDataNormalized ==
    (pc = "done"
     /\ (fn = "_compare_set"
         \/ (fn = "_do_comparison" /\ called = <<"_compare_set">>))) =>
        LET S == requirement.elems
            items == result.items
        IN  /\ data = NOTFOUND =>
                    /\ Range(items) = {Missing(v) : v \in S}
                    /\ Len(items) = Cardinality(S)
            /\ data.t \in {"str", "int"} =>
                    /\ Range(items) =
                            {Missing(v) : v \in S \ {data}}
                            \cup (IF data \in S THEN {} ELSE {Extra(data)})
                    /\ Len(items) = Cardinality(Range(items))

\* C7 witness: the str 'ab' was compared with the set of its characters
\* and reported as one Extra, both characters as Missing.
C7_Witness ==
    /\ Done("_compare_set")
    /\ data = AB
    /\ requirement.elems = {A, B}
    /\ Len(result.items) = 3
    /\ result.items[3] = Extra(AB)

\* C7 second case reached: NOTFOUND against a set of two elements gave two
\* Missing.
C7_WitnessNotFound ==
    /\ Done("_compare_set")
    /\ data = NOTFOUND
    /\ Len(result.items) = 2

\* A direct call of predicate comparison on a list, consumed to its end.
CallableOnList == Done("_compare_callable") /\ data.t = "list"

\* What the predicate does with the i-th element of the data list.
OutcomeAt(i) == requirement.table[CallArgs(data.items[i])]

\* The elements up to the i-th for which the predicate did not return True.
ReportedUpTo(i) == {j \in 1..i : OutcomeAt(j) # "True"}

\* The difference due for the i-th element.
DueAt(i) == IF OutcomeAt(i) = "diff" THEN ReturnedDiff
            ELSE Invalid(data.items[i])

\* The result holds, in data order, one difference for each element whose
\* outcome is not True, and the iterator ends without an exception.
ReportsEachInOrder ==
    /\ result.kind = "iter"
    /\ result.exc = "none"
    /\ Len(result.items) = Cardinality(ReportedUpTo(Len(data.items)))
    /\ \A i \in ReportedUpTo(Len(data.items)) :
            result.items[Cardinality(ReportedUpTo(i))] = DueAt(i)

\* C8: when the predicate returns True, False or a difference for every
\* element, the result has, in data order, nothing for True, Invalid(element)
\* for False and the returned difference itself for a difference;
\* duplicates are not collapsed.
C8_PredicateOutcomesInOrder ==
    (CallableOnList
     /\ (\A i \in DOMAIN data.items :
            OutcomeAt(i) \in {"True", "False", "diff"}))
        => ReportsEachInOrder

\* C8 witness: False twice for the same element and a returned difference
\* gave two equal Invalid and then that difference.
C8_Witness ==
    /\ CallableOnList
    /\ Len(data.items) = 3
    /\ data.items[1] = data.items[2]
    /\ result.items = <<Invalid(data.items[1]), Invalid(data.items[1]),
                        ReturnedDiff>>

\* C9: an exception raised by the predicate counts as False: it is not
\* propagated, Invalid(element) is reported for that element, and every
\* later element is still evaluated and reported.
C9_RaisedCountsAsFalse ==
    (CallableOnList
     /\ (\E i \in DOMAIN data.items : OutcomeAt(i) = "raise")
     /\ (\A i \in DOMAIN data.items : OutcomeAt(i) # "bad"))
        => /\ ReportsEachInOrder
           /\ result.ncmp = Len(data.items)
           /\ \A i \in DOMAIN data.items :
                OutcomeAt(i) = "raise" =>
                    \E j \in DOMAIN result.items :
                        result.items[j] = Invalid(data.items[i])

\* C9 witness: the predicate raised on the first and the third element
\* and returned False for the one between; all three were reported.
C9_Witness ==
    /\ CallableOnList
    /\ Len(data.items) = 3
    /\ OutcomeAt(1) = "raise"
    /\ OutcomeAt(2) = "False"
    /\ OutcomeAt(3) = "raise"
    /\ result.exc = "none"
    /\ result.items = <<Invalid(data.items[1]), Invalid(data.items[2]),
                        Invalid(data.items[1])>>

\* The first element for which the predicate returns something other than
\* True, False or a difference.
FirstBad ==
    CHOOSE i \in DOMAIN data.items :
        /\ OutcomeAt(i) = "bad"
        /\ \A j \in 1..(i - 1) : OutcomeAt(j) # "bad"

\* C10: a return value other than True, False or a difference makes the
\* comparison raise a TypeError; only the elements before it are reported.
C10_BadReturnRaisesTypeError ==
    (CallableOnList /\ (\E i \in DOMAIN data.items : OutcomeAt(i) = "bad"))
        => /\ result.exc = "TypeError"
           /\ Len(result.items) = Cardinality(ReportedUpTo(FirstBad - 1))

\* What does hold of a bad return value: some exception ends the
\* comparison, and the element is not reported.
C10_BadReturnRaises ==
    (CallableOnList /\ (\E i \in DOMAIN data.items : OutcomeAt(i) = "bad"))
        => /\ result.exc = BadReturnError(requirement)
           /\ Len(result.items) = Cardinality(ReportedUpTo(FirstBad - 1))

\* C11: through the dispatch, data that is NOTFOUND is evaluated as a single
\* None by a predicate or a pattern: a predicate returning False, or a
\* pattern, gives the lone difference Invalid(None), never
\* Invalid(NOTFOUND).
C11_NotFoundEvaluatedAsNone ==
    (Done("_do_comparison") /\ data = NOTFOUND
     /\ \/ /\ called = <<"_compare_callable">>
           /\ requirement.table[<<NoneV>>] = "False"
           /\ requirement.table[<<NOTFOUND>>] = "False"
        \/ called = <<"_compare_regex">>)
        => /\ result.kind = "single"
           /\ result.items = <<Invalid(NoneV)>>

\* What the code does there: the dispatch wraps NOTFOUND in a list before
\* the strategy sees it, so the element evaluated and reported is NOTFOUND.
C11_NotFoundReportedAsIs ==
    (Done("_do_comparison") /\ data = NOTFOUND
     /\ \/ /\ called = <<"_compare_callable">>
           /\ requirement.table[<<NOTFOUND>>] = "False"
        \/ called = <<"_compare_regex">>)
        => /\ result.kind = "single"
           /\ result.items = <<Invalid(NOTFOUND)>>

\* A direct call of pattern comparison on a list, consumed to its end.
RegexOnList == Done("_compare_regex") /\ data.t = "list"

\* The elements up to the i-th that the pattern does not match: strings
\* outside the pattern, and elements that are not text.
UnmatchedUpTo(i) ==
    {j \in 1..i : ~(data.items[j].t = "str"
                    /\ data.items[j] \in requirement.pat)}

\* C12: pattern comparison reports, in data order, Invalid(element) for
\* every element the search finds no match in or raises a TypeError on,
\* and nothing for an element that matches; duplicates are kept, and a
\* TypeError does not stop the evaluation of later elements.
C12_PatternReportsInOrder ==
    RegexOnList =>
        LET n == Len(data.items)
        IN  /\ result.kind = "iter"
            /\ result.exc = "none"
            /\ result.ncmp = n
            /\ Len(result.items) = Cardinality(UnmatchedUpTo(n))
            /\ \A i \in UnmatchedUpTo(n) :
                    result.items[Cardinality(UnmatchedUpTo(i))]
                        = Invalid(data.items[i])

\* C12 witness: a number, then a string the pattern matches, then a string
\* it does not match: the number and the last string were reported; and
\* (second witness) the same unmatched string twice was reported twice.
C12_Witness ==
    /\ RegexOnList
    /\ data.items = <<One, A, B>>
    /\ requirement.pat = {A}
    /\ result.items = <<Invalid(One), Invalid(B)>>

C12_WitnessDuplicates ==
    /\ RegexOnList
    /\ data.items = <<B, One, B>>
    /\ requirement.pat = {A}
    /\ result.items = <<Invalid(B), Invalid(One), Invalid(B)>>

\* A completed equality comparison, direct or through the dispatch.
EqualityCompared ==
    /\ pc = "done"
    /\ \/ fn = "_compare_other"
       \/ fn = "_do_comparison" /\ called = <<"_compare_other">>

\* How many elements an equality comparison has to decide: those of an
\* iterable, or one for a single value.
ElementCount == IF IsNsIterable(data) THEN Len(IterItems(data)) ELSE 1

\* C13: equality comparison decides each element with ==, not with !=:
\* for a requirement whose __eq__ always returns True and whose __ne__ is
\* not implemented, __eq__ is invoked exactly once per data element (once
\* for a single value) and no difference is reported.
C13_DecidesWithEq ==
    (EqualityCompared /\ requirement.val = EqualsAll) =>
        /\ times_called = ElementCount
        /\ result.items = <<>>

\* What the code does there: `element != other` never reaches __eq__ and
\* is true for two distinct objects, so every element is reported.
C13_DecidesWithNe ==
    (EqualityCompared /\ requirement.val = EqualsAll) =>
        /\ times_called = 0
        /\ Len(result.items) = IF fn = "_do_comparison" /\ ElementCount > 0
                                  /\ ~IsNsIterable(data)
                               THEN 1 ELSE ElementCount

\* A direct call of equality comparison on a list, consumed to its end,
\* with a requirement of ordinary equality (a number or a string).
OtherOnList ==
    /\ Done("_compare_other")
    /\ data.t = "list"
    /\ requirement.val.t \in {"int", "str"}

\* The elements up to the i-th that are not equal to the requirement; an
\* instance of BadClass, whose comparison raises, is among them.
UnequalUpTo(i) == {j \in 1..i : data.items[j] # requirement.val}

\* C14: an exception raised by an element's equality operator is treated
\* as "not equal": it is not propagated, exactly one difference is
\* reported for that element, in its place among the differences of the
\* other unequal elements, and every other element is still compared.
C14_RaisingEqualityIsNotEqual ==
    /\ (OtherOnList /\ (\E i \in DOMAIN data.items : data.items[i] = Bad)) =>
            LET n == Len(data.items)
            IN  /\ result.kind = "iter"
                /\ result.exc = "none"
                /\ result.ncmp = n
                /\ Len(result.items) = Cardinality(UnequalUpTo(n))
                /\ \A i \in UnequalUpTo(n) :
                        (result.items[Cardinality(UnequalUpTo(i))] = Invalid(Bad))
                            <=> data.items[i] = Bad
    /\ (Done("_do_comparison") /\ called = <<"_compare_other">>
         /\ data = Bad) =>
            /\ result.kind = "single"
            /\ result.items[1].cls = "Invalid"
            /\ result.items[1].args[1] = Bad

\* C14 witness: [1, bad, 1] compared with 1 gave exactly one difference,
\* for bad.
C14_Witness ==
    /\ OtherOnList
    /\ data.items = <<One, Bad, One>>
    /\ requirement.val = One
    /\ result.items = <<Invalid(Bad)>>
    /\ result.ncmp = 3

\* C14 second witness: the element after bad was unequal too and was
\* reported after it.
C14_WitnessLater ==
    /\ OtherOnList
    /\ data.items = <<Bad, A, One>>
    /\ requirement.val = One
    /\ result.items = <<Invalid(Bad), Invalid(A)>>

\* C15: in equality comparison through the dispatch, a single value (a
\* string or other non-iterable) that is not a number and is unequal to
\* the requirement is reported as Invalid(actual, expected), with the
\* expected value; each unequal element of an iterable that is not a
\* number is reported as Invalid(element), without it.
C15_ExpectedShownForSingleValue ==
    (Done("_do_comparison") /\ called = <<"_compare_other">>
     /\ requirement.val.t \in {"int", "str"}) =>
        /\ (data.t \in {"str", "BadClass"} /\ data # requirement.val) =>
                /\ result.kind = "single"
                /\ result.items = <<Invalid2(data, requirement.val)>>
        /\ data.t = "list" =>
                \A i \in DOMAIN data.items :
                    (data.items[i].t \in {"str", "BadClass"}
                     /\ data.items[i] # requirement.val) =>
                        \E j \in DOMAIN result.items :
                            result.items[j] = Invalid(data.items[i])

\* What the code does there: the equality strategy omits the expected
\* value for every element, and a single value is one element of a list.
C15_ExpectedAlwaysOmitted ==
    (Done("_do_comparison") /\ called = <<"_compare_other">>
     /\ requirement.val.t \in {"int", "str"}
     /\ data.t \in {"str", "BadClass"} /\ data # requirement.val) =>
        /\ result.kind = "single"
        /\ result.items = <<Invalid(data)>>

\* A completed mapping comparison of data that is a dict.
MappingCompared ==
    /\ pc = "done"
    /\ fn \in {"_compare_mapping", "_do_mapping_comparison"}
    /\ data.t = "dict"

\* A report that says something: not None and not an empty collection.
Nonempty(report) ==
    /\ report.kind # "None"
    /\ report.kind \in {"list", "iter"} => report.items # <<>>

\* C16: mapping comparison emits a (key, report) pair only for a nonempty
\* report: no emitted report is None or an empty collection, for keys of
\* data and for keys only the requirement has.
C16_OnlyNonemptyReports ==
    (Done("_compare_mapping") /\ data.t = "dict") =>
        \A i \in DOMAIN result.items : Nonempty(result.items[i].report)

\* What the code does: the reports of data's keys are emitted only when
\* nonempty, while a key only the requirement has is always emitted.
C16_OnlyDataKeysFiltered ==
    (Done("_compare_mapping") /\ data.t = "dict") =>
        \A i \in DOMAIN result.items :
            \/ Nonempty(result.items[i].report)
            \/ \A k \in DOMAIN data.items :
                    data.items[k].items[1] # result.items[i].key

\* The entries of the requirement whose key data lacks, in order.
RequirementOnly ==
    SelectSeq(requirement.entries,
              LAMBDA e : \A k \in DOMAIN data.items :
                            data.items[k].items[1] # e[1])

\* Some emitted pair has this key and a report of this kind with exactly
\* these differences, in any order.
Reported(key, kind, diffs) ==
    \E p \in DOMAIN result.items :
        /\ result.items[p].key = key
        /\ result.items[p].report.kind = kind
        /\ Range(result.items[p].report.items) = diffs
        /\ Len(result.items[p].report.items) = Cardinality(diffs)

\* C17: a mapping comparison that runs to its end compares every key of
\* data with the requirement's value for that key, or with NOTFOUND when
\* the requirement lacks the key, and then every key only the requirement
\* has as (NOTFOUND, expected); no key is skipped.  A string under a key
\* the requirement lacks is reported as Extra, a string required under a
\* key data lacks as Missing(expected), a nonempty set required there as a
\* list with a Missing for each of its elements.
C17_EveryKeyCompared ==
    (MappingCompared /\ result.exc = "none") =>
        LET n == Len(data.items)
            only == RequirementOnly
        IN  /\ Len(called) = n + Len(only)
            /\ \A i \in 1..n :
                    /\ called[i].key = data.items[i].items[1]
                    /\ called[i].actual = data.items[i].items[2]
                    /\ \/ \E e \in DOMAIN requirement.entries :
                            /\ requirement.entries[e][1] = called[i].key
                            /\ requirement.entries[e][2] = called[i].expected
                       \/ /\ \A e \in DOMAIN requirement.entries :
                                requirement.entries[e][1] # called[i].key
                          /\ called[i].expected.val = NOTFOUND
                          /\ called[i].expected.caps = {}
                          /\ called[i].actual.t = "str" =>
                                Reported(called[i].key, "single",
                                         {Extra(called[i].actual)})
            /\ \A j \in DOMAIN only :
                    /\ called[n + j].key = only[j][1]
                    /\ called[n + j].actual = NOTFOUND
                    /\ called[n + j].expected = only[j][2]
                    /\ (only[j][2].caps = {} /\ only[j][2].val.t = "str") =>
                            Reported(only[j][1], "single",
                                     {Missing(only[j][2].val)})
                    /\ (only[j][2].caps = {"Set"} /\ only[j][2].elems # {}) =>
                            Reported(only[j][1], "list",
                                     {Missing(x) : x \in only[j][2].elems})

\* C17 witness: data has a key the requirement lacks and the requirement a
\* key data lacks; the first was reported as Extra and the second as
\* Missing.
C17_Witness ==
    /\ Done("_compare_mapping")
    /\ data = DictV(<<TupleV(<<A, B>>)>>)
    /\ requirement.entries = <<<<B, ScalarReq(A)>>>>
    /\ Len(called) = 2
    /\ Len(result.items) = 2
    /\ result.items[1].key = A
    /\ result.items[1].report.items = <<Extra(B)>>
    /\ result.items[2].key = B
    /\ result.items[2].report.items = <<Missing(A)>>

\* C17 second witness: a set required under a key data lacks gave a list of
\* two Missing, while the key both sides have gave nothing.
C17_WitnessSet ==
    /\ Done("_compare_mapping")
    /\ data = DictV(<<TupleV(<<A, A>>)>>)
    /\ requirement.entries = <<<<A, ScalarReq(A)>>, <<B, SetReq({A, B})>>>>
    /\ Len(result.items) = 1
    /\ result.items[1].key = B
    /\ result.items[1].report.kind = "list"
    /\ result.items[1].report.items = <<Missing(B), Missing(A)>>

\* C18: _do_mapping_comparison returns None exactly when no key produced a
\* nonempty report, and otherwise an iterable that holds the pair of every
\* key with a nonempty report, the first one included.
C18_NoneIffNoReport ==
    (Done("_do_mapping_comparison") /\ data.t = "dict"
     /\ result.exc = "none") =>
        /\ result.kind = "None" <=>
                \A i \in DOMAIN called : ~Nonempty(called[i].report)
        /\ result.kind # "None" =>
                /\ result.kind = "iter"
                /\ \A i \in DOMAIN called :
                        Nonempty(called[i].report) =>
                            \E p \in DOMAIN result.items :
                                /\ result.items[p].key = called[i].key
                                /\ result.items[p].report.items
                                        = called[i].report.items
                                /\ result.items[p].report.err
                                        = called[i].report.err

\* What the code does: it returns None exactly when the comparison of
\* every key of data returned None and the requirement has no key that
\* data lacks.
C18_NoneIffNothingYielded ==
    (Done("_do_mapping_comparison") /\ data.t = "dict"
     /\ result.exc = "none") =>
        (result.kind = "None" <=>
            /\ RequirementOnly = <<>>
            /\ \A i \in DOMAIN called : called[i].report.kind = "None")

\* Data that is an iterable of key-value pairs: a list of 2-tuples.
IsCollectionOfItems(d) ==
    /\ d.t = "list"
    /\ \A i \in DOMAIN d.items :
            d.items[i].t = "tuple" /\ Len(d.items[i].items) = 2

\* C19: mapping comparison raises a TypeError when data is neither a
\* Mapping nor an iterable of key-value pairs, and reports nothing.
C19_RaisesTypeError ==
    (pc = "done" /\ fn \in {"_compare_mapping", "_do_mapping_comparison"}
     /\ data.t # "dict" /\ ~IsCollectionOfItems(data)) =>
        /\ result.exc = "TypeError"
        /\ result.items = <<>>

\* What the code does: for every data that is no Mapping, a list of pairs
\* included, the comparison ends in a NameError.
C19_RaisesNameError ==
    (pc = "done" /\ fn \in {"_compare_mapping", "_do_mapping_comparison"}
     /\ data.t # "dict") =>
        /\ result.exc = "NameError"
        /\ result.items = <<>>

\* C20: a per-key report that is a lazy iterator of differences is emitted
\* as a list of the same differences in the same order, so that iterating
\* it again yields them again; a per-key report that is one difference is
\* emitted as that difference, not wrapped in a list.
C20_ReportsMaterialized ==
    (Done("_compare_mapping") /\ data.t = "dict") =>
        /\ \A p \in DOMAIN result.items :
                /\ result.items[p].report.kind # "iter"
                /\ SecondPass(result.items[p].report)
                        = result.items[p].report.items
        /\ \A i \in DOMAIN called :
                /\ (called[i].report.kind = "iter"
                     /\ called[i].report.exc = "none") =>
                        \E p \in DOMAIN result.items :
                            /\ result.items[p].key = called[i].key
                            /\ result.items[p].report.kind = "list"
                            /\ result.items[p].report.items
                                    = called[i].report.items
                /\ called[i].report.kind = "single" =>
                        \E p \in DOMAIN result.items :
                            /\ result.items[p].key = called[i].key
                            /\ result.items[p].report.kind = "single"
                            /\ result.items[p].report.items
                                    = called[i].report.items
                            /\ Len(result.items[p].report.items) = 1

\* C20 witness: one key's two differences were emitted as a list of two,
\* the other key's single difference as it was.
C20_Witness ==
    /\ Done("_compare_mapping")
    /\ Len(result.items) = 2
    /\ called[1].report.kind = "iter"
    /\ result.items[1].report.kind = "list"
    /\ Len(result.items[1].report.items) = 2
    /\ called[2].report.kind = "single"
    /\ result.items[2].report.kind = "single"

----------------------------------------------------------------------------
(* Allowances.                                                             *)

\* The allowance was left after a ValidationError was raised inside it.
Exited == pc = "done" /\ fn = "__exit__" /\ errors # NoErrors

\* The container of the filtered remainder matches the container of the
\* raised differences: flat for flat, a mapping or key-value pairs for a
\* mapping.
SameShape(out) ==
    (errors.shape = "mapping") = (out.container \in {"dict", "items"})

\* C21 as stated: the error is suppressed exactly when the filter-false
\* function returns nothing, and is otherwise re-raised as a
\* ValidationError carrying exactly what the function returned; an
\* allowance in which nothing was raised does nothing.
C21_SuppressedIffEmptyElseReraised ==
    (pc = "done" /\ fn = "__exit__") =>
        IF errors = NoErrors THEN result.kind = "noop"
        ELSE LET out == Filterfalse(allowance, errors)
             IN  /\ result.kind = "suppressed" <=> out.items = <<>>
                 /\ out.items # <<>> =>
                        /\ result.kind = "reraised"
                        /\ result.exc = "ValidationError"
                        /\ result.items = out.items

\* C21 as amended: the error is suppressed exactly when the filter-false
\* function returns nothing (an empty list, an exhausted iterator, no
\* keys); a nonempty remainder in a container of the same shape as the
\* raised differences is re-raised as a ValidationError carrying exactly
\* that remainder, and a nonempty remainder of the other shape raises a
\* TypeError instead; an allowance in which nothing was raised does
\* nothing.
C21_SuppressedIffEmptyElseReraisedOrTypeError ==
    (pc = "done" /\ fn = "__exit__") =>
        IF errors = NoErrors THEN result.kind = "noop"
        ELSE LET out == Filterfalse(allowance, errors)
             IN  /\ result.kind = "suppressed" <=> out.items = <<>>
                 /\ (out.items # <<>> /\ SameShape(out)) =>
                        /\ result.kind = "reraised"
                        /\ result.exc = "ValidationError"
                        /\ result.items = out.items
                 /\ (out.items # <<>> /\ ~SameShape(out)) =>
                        /\ result.kind = "raise"
                        /\ result.exc = "TypeError"

\* C21 witness: a BaseAllowance whose function returned an exhausted
\* iterator for a flat list of two differences suppressed the error.
C21_Witness ==
    /\ Exited
    /\ allowance.kind = "base"
    /\ errors.shape = "flat"
    /\ Len(errors.items) = 2
    /\ Filterfalse(allowance, errors) = Filtered("iter", <<>>)
    /\ result.kind = "suppressed"

\* C22: allow_limit(n) is all-or-nothing per scope.  A flat report of at
\* most n differences is suppressed whole, and a longer one is re-raised
\* with every one of its differences; in a mapping-shaped report the keys
\* holding at most n differences are dropped and the keys holding more
\* keep every one of their differences.
C22_LimitAllOrNothing ==
    (Exited /\ allowance.kind = "limit") =>
        IF errors.shape = "flat"
        THEN IF Len(errors.items) <= allowance.number
             THEN result.kind = "suppressed"
             ELSE result.kind = "reraised" /\ result.items = errors.items
        ELSE LET over == SelectSeq(errors.items,
                            LAMBDA kv : Len(kv.group) > allowance.number)
             IN  IF over = <<>>
                 THEN result.kind = "suppressed"
                 ELSE result.kind = "reraised" /\ result.items = over

\* C22 witness: allow_limit(1) guarding a flat report of two differences
\* re-raised both of them.
C22_Witness ==
    /\ Exited
    /\ allowance = allow_limit(1)
    /\ errors.shape = "flat"
    /\ Len(errors.items) = 2
    /\ result.kind = "reraised"
    /\ result.items = errors.items

\* C22 witness for a mapping: allow_limit(1) dropped the key holding one
\* difference and kept both differences of the other key.
C22_WitnessMapping ==
    /\ Exited
    /\ allowance = allow_limit(1)
    /\ errors.shape = "mapping"
    /\ Len(errors.items) = 2
    /\ Len(errors.items[1].group) = 2
    /\ Len(errors.items[2].group) = 1
    /\ result.kind = "reraised"
    /\ result.items = <<errors.items[1]>>

\* The differences of the raised error that Remain(key, difference) holds
\* of, in their original order and under their keys; a key none of whose
\* differences remain is left out.
Remainder(Remain(_, _)) ==
    IF errors.shape = "flat"
    THEN SelectSeq(errors.items, LAMBDA d : Remain(NoneV, d))
    ELSE SelectSeq(
             [i \in DOMAIN errors.items |->
                 KeyGroup(errors.items[i].key,
                          SelectSeq(errors.items[i].group,
                                    LAMBDA d : Remain(errors.items[i].key, d)))],
             LAMBDA kv : kv.group # <<>>)

\* The allowance suppressed the error when nothing remains, and otherwise
\* re-raised it with exactly the differences in remainder.
LeftWith(remainder) ==
    IF remainder = <<>>
    THEN result.kind = "suppressed"
    ELSE /\ result.kind = "reraised"
         /\ result.exc = "ValidationError"
         /\ result.items = remainder

\* The allowance is written as two elementwise allowances joined by op.
ElementwisePair(op) ==
    /\ allowance.kind = "composed"
    /\ allowance.op = op
    /\ allowance.left.kind = "elementwise"
    /\ allowance.right.kind = "elementwise"

\* C23: A | B of two elementwise allowances suppresses a difference exactly
\* when A or B allows it: what is re-raised is the differences that neither
\* allows, in their original order, and the error is suppressed when there
\* is none.
C23_OrLeavesDisallowedByBoth ==
    (Exited /\ ElementwisePair("or")) =>
        LET neither(key, d) == /\ ~Allowed(allowance.left.pred, key, d)
                               /\ ~Allowed(allowance.right.pred, key, d)
        IN  LeftWith(Remainder(neither))

\* C23 witness: allow_extra() | allow_args(is 'a') around three differences,
\* one allowed by the left operand only and one by the right operand only,
\* re-raised the third alone.
C23_Witness ==
    /\ Exited
    /\ allowance = Composed("or", allow_extra, allow_args_is_a)
    /\ errors = Payload("flat", <<Extra(B), Missing(B), Missing(A)>>)
    /\ result.kind = "reraised"
    /\ result.items = <<Missing(B)>>

\* C24: A & B of two elementwise allowances suppresses a difference exactly
\* when A and B both allow it: what is re-raised is the differences that A
\* or B does not allow, in their original order.
C24_AndLeavesDisallowedByEither ==
    (Exited /\ ElementwisePair("and")) =>
        LET either(key, d) == \/ ~Allowed(allowance.left.pred, key, d)
                              \/ ~Allowed(allowance.right.pred, key, d)
        IN  LeftWith(Remainder(either))

\* C24 witness: allow_missing() & allow_args(is 'a') around [Missing('a'),
\* Extra('b'), Missing('b')] re-raised [Extra('b'), Missing('b')].
C24_Witness ==
    /\ Exited
    /\ allowance = Composed("and", allow_missing, allow_args_is_a)
    /\ errors = Payload("flat", <<Missing(A), Extra(B), Missing(B)>>)
    /\ result.kind = "reraised"
    /\ result.items = <<Extra(B), Missing(B)>>

\* The allowance is written as allow_limit(n) and an elementwise allowance
\* joined by op, in either order.
LimitPair(op) ==
    /\ allowance.kind = "composed"
    /\ allowance.op = op
    /\ {allowance.left.kind, allowance.right.kind} = {"limit", "elementwise"}

\* The same two operands written the other way round.
Swapped == Composed(allowance.op, allowance.right, allowance.left)

\* How many differences of the scope E allows, and how many it does not.
CountAllowed(E, key, group) ==
    Cardinality({i \in DOMAIN group : Allowed(E.pred, key, group[i])})
CountDisallowed(E, key, group) == Len(group) - CountAllowed(E, key, group)

\* C25: allow_limit(n) composed with an elementwise allowance E gives the
\* same outcome whichever operand is written on the left: the error is
\* suppressed in the same cases and otherwise re-raised with the same
\* remainder.  For |, a flat report is suppressed exactly when E disallows
\* at most n of its differences; for &, exactly when E allows all of them
\* and there are at most n.
C25_SameOutcomeOnEitherSide ==
    (Exited /\ (LimitPair("or") \/ LimitPair("and"))) =>
        LET limit == IF allowance.left.kind = "limit"
                     THEN allowance.left ELSE allowance.right
            E == IF allowance.left.kind = "limit"
                 THEN allowance.right ELSE allowance.left
        IN  /\ result = Exit(Swapped, errors)
            /\ (errors.shape = "flat" /\ allowance.op = "or") =>
                    (result.kind = "suppressed" <=>
                        CountDisallowed(E, NoneV, errors.items) <= limit.number)
            /\ (errors.shape = "flat" /\ allowance.op = "and") =>
                    (result.kind = "suppressed" <=>
                        /\ CountDisallowed(E, NoneV, errors.items) = 0
                        /\ Len(errors.items) <= limit.number)

\* C25 witness: allow_missing() | allow_limit(1), the limit written on the
\* right, around two Extra and one Missing re-raised the error, two
\* differences being more than the limit lets pass.
C25_Witness ==
    /\ Exited
    /\ allowance = Composed("or", allow_missing, allow_limit(1))
    /\ errors = Payload("flat", <<Extra(A), Extra(B), Missing(A)>>)
    /\ result.kind = "reraised"
    /\ result = Exit(Composed("or", allow_limit(1), allow_missing), errors)

\* C25 witness for &: allow_extra() & allow_limit(2) around [Extra,
\* Missing, Extra] re-raised the Missing alone.
C25_WitnessAnd ==
    /\ Exited
    /\ allowance = Composed("and", allow_extra, allow_limit(2))
    /\ errors = Payload("flat", <<Extra(A), Missing(B), Extra(B)>>)
    /\ result.kind = "reraised"
    /\ result.items = <<Missing(B)>>

----------------------------------------------------------------------------
(* Differences.                                                            *)

\* The difference factory was called on data and requirement.val, and
\* returned difference.
Classified == Done("_get_error")
difference == result.items[1]

\* None or the not-found marker.
Absent(v) == v \in {NoneV, NOTFOUND}

\* C26: for two differing numbers the difference factory returns a
\* Deviation whose first argument added to the expected value gives the
\* actual value, and whose second argument is the expected value; an actual
\* value of None or not-found counts as zero against a nonzero expected
\* value, and gives Deviation(None, 0) against an expected value of zero.
C26_DeviationIsActualMinusExpected ==
    Classified =>
        LET actual == data
            expected == requirement.val
        IN  /\ (IsNum(actual) /\ IsNum(expected)) =>
                    /\ difference.cls = "Deviation"
                    /\ difference.args[1].t = "int"
                    /\ difference.args[1].n + expected.n = actual.n
                    /\ difference.args[2] = expected
            /\ (Absent(actual) /\ IsNum(expected) /\ expected.n # 0) =>
                    /\ difference.cls = "Deviation"
                    /\ difference.args[1].t = "int"
                    /\ difference.args[1].n + expected.n = 0
                    /\ difference.args[2] = expected
            /\ (Absent(actual) /\ IsNum(expected) /\ expected.n = 0) =>
                    difference = Deviation(NoneV, IntV(0))

\* C26 witness: classify(5, 6) returned Deviation(-1, 6).
C26_Witness ==
    /\ Classified
    /\ data = IntV(5)
    /\ requirement.val = IntV(6)
    /\ difference = Deviation(IntV(-1), IntV(6))

\* C26 witness for the absent actual value: classify(NOTFOUND, 6) returned
\* Deviation(-6, 6).
C26_WitnessNotFound ==
    /\ Classified
    /\ data = NOTFOUND
    /\ requirement.val = IntV(6)
    /\ difference = Deviation(IntV(-6), IntV(6))

\* Deviation(data, requirement.val) was called.
Constructed == Done("Deviation")

\* C27 as stated: Deviation(0, 5) raises, Deviation(5, 0) raises, and
\* Deviation(5, None) succeeds with the arguments (5, None).
C27_ZeroExpectedRaises ==
    Constructed =>
        /\ (data = IntV(0) /\ requirement.val = IntV(5)) =>
                result.kind = "raise"
        /\ (data = IntV(5) /\ requirement.val = IntV(0)) =>
                result.kind = "raise"
        /\ (data = IntV(5) /\ requirement.val = NoneV) =>
                /\ result.kind = "single"
                /\ result.items[1] = Deviation(IntV(5), NoneV)

\* C27 as amended: Deviation(0, 5) raises a ValueError, Deviation(5, 0)
\* succeeds with the arguments (5, 0), and Deviation(5, None) succeeds
\* with the arguments (5, None).
C27_ZeroDeviationRaises ==
    Constructed =>
        /\ (data = IntV(0) /\ requirement.val = IntV(5)) =>
                /\ result.kind = "raise"
                /\ result.exc = "ValueError"
        /\ (data = IntV(5) /\ requirement.val = IntV(0)) =>
                /\ result.kind = "single"
                /\ result.items[1] = Deviation(IntV(5), IntV(0))
        /\ (data = IntV(5) /\ requirement.val = NoneV) =>
                /\ result.kind = "single"
                /\ result.items[1] = Deviation(IntV(5), NoneV)

\* C27 witness: Deviation(5, 0) was constructed.
C27_Witness ==
    /\ Constructed
    /\ data = IntV(5)
    /\ requirement.val = IntV(0)
    /\ result.kind = "single"

\* C27 witness for the rejected construction: Deviation(0, 5) raised.
C27_WitnessRaises ==
    /\ Constructed
    /\ data = IntV(0)
    /\ requirement.val = IntV(5)
    /\ result.exc = "ValueError"

----------------------------------------------------------------------------
(* The dispatch and its strategies, once more.                             *)

\* A set comparison was made, directly or through the dispatch.
SetCompared ==
    /\ pc = "done"
    /\ \/ fn = "_compare_set"
       \/ fn = "_do_comparison" /\ called = <<"_compare_set">>

\* C28: a set comparison emits every Missing difference before any Extra
\* difference, and the dispatch hands on all of them in that order: the
\* differences are the Missing ones, one per requirement element data lacks,
\* followed by the Extra ones, one per data value outside the requirement.
C28_MissingBeforeExtra ==
    SetCompared =>
        LET items == result.items
            missing == MissingElements(data, requirement.elems)
            extra == ExtraElements(data, requirement.elems)
        IN  /\ Len(items) = Cardinality(missing) + Cardinality(extra)
            /\ \A i \in DOMAIN items :
                    IF i <= Cardinality(missing)
                    THEN items[i].cls = "Missing" /\ items[i].args[1] \in missing
                    ELSE items[i].cls = "Extra" /\ items[i].args[1] \in extra
            /\ \A i, j \in DOMAIN items :
                    (items[i].cls = "Extra" /\ items[j].cls = "Missing") => j < i
            /\ fn = "_do_comparison" =>
                    result.kind = IF items = <<>> THEN "None" ELSE "iter"

\* C28 witness: the single value 'b' compared through the dispatch with
\* the set {'a'} gave [Missing('a'), Extra('b')].
C28_Witness ==
    /\ Done("_do_comparison")
    /\ called = <<"_compare_set">>
    /\ data = B
    /\ requirement.elems = {A}
    /\ result.kind = "iter"
    /\ result.items = <<Missing(A), Extra(B)>>

\* A mapping comparison of a dict was consumed to its end.
MappingConsumed ==
    /\ pc = "done"
    /\ fn \in {"_compare_mapping", "_do_mapping_comparison"}
    /\ data.t = "dict"

\* The value is no sequence a sequence requirement can be compared with: a
\* str, or anything that is not a Sequence.
NotSequenceData(v) == IsStr(v) \/ ~IsSequence(v)

\* C29: when the comparison reaches a key whose value is not a sequence
\* while the key's requirement is one, the mapping comparison ends there in
\* a ValueError: no (key, report) pair is emitted for that key, and no
\* further key is compared.
C29_StructuralFailureAborts ==
    MappingConsumed =>
        \A i \in DOMAIN called :
            (NotSequenceData(called[i].actual)
             /\ IsSequenceRequirement(called[i].expected)) =>
                /\ result.exc = "ValueError"
                /\ result.kind \in {"iter", "raise"}
                /\ \A p \in DOMAIN result.items :
                        result.items[p].key # called[i].key
                /\ i = Len(called)

\* C29 witness: {'a': 'a'} compared with {'a': ['a']} raised a ValueError
\* and emitted nothing.
C29_Witness ==
    /\ MappingConsumed
    /\ data = DictV(<<TupleV(<<A, A>>)>>)
    /\ Len(called) = 1
    /\ IsSequenceRequirement(called[1].expected)
    /\ result.exc = "ValueError"
    /\ result.items = <<>>

\* C29 witness for a later key: the first key's report was emitted, the
\* second key's comparison raised.
C29_WitnessLater ==
    /\ MappingConsumed
    /\ Len(called) = 2
    /\ NotSequenceData(called[2].actual)
    /\ IsSequenceRequirement(called[2].expected)
    /\ Len(result.items) = 1
    /\ result.items[1].key = called[1].key
    /\ result.exc = "ValueError"

\* The dispatch ran one of the four lazy strategies.
LazyDispatched ==
    /\ Done("_do_comparison")
    /\ called[1] \in {"_compare_set", "_compare_callable", "_compare_regex",
                      "_compare_other"}

\* The data is one value, not a collection of values to compare.
SingleValue == ~IsNsIterable(data) \/ IsMapping(data)

\* What the selected strategy yields for the data as the dispatch hands it
\* over (a single value wrapped in a list); mo and eo are the orders in which
\* a set comparison iterates its two sets.
StrategyRun(mo, eo) ==
    LET elements == ListV(DoComparisonElements(data))
    IN  CASE called[1] = "_compare_set" ->
                CompareSet(data, requirement.elems, mo, eo)
          [] called[1] = "_compare_callable" ->
                CompareCallable(elements, requirement)
          [] called[1] = "_compare_regex" -> CompareRegex(elements, requirement)
          [] called[1] = "_compare_other" ->
                CompareOther(DoComparisonElements(data), requirement.val)

\* The orders a set comparison can iterate its sets in (one empty order for
\* the other strategies).
SetOrders(S) == IF called[1] = "_compare_set" THEN Orderings(S) ELSE {<<>>}

\* The dispatch returned None when the strategy completed without a
\* difference, and raised what the strategy raised before its first
\* difference.
NoneIffNoDifference(gen) ==
    /\ result.kind = "None" <=> (gen.items = <<>> /\ gen.exc = "none")
    /\ (gen.items = <<>> /\ gen.exc # "none") =>
            result.kind = "raise" /\ result.exc = gen.exc

\* The dispatch returned an iterable yielding what the strategy yields.
SameDifferences(gen) ==
    /\ result.kind = "iter"
    /\ result.items = gen.items
    /\ result.exc = gen.exc

\* C30 as stated: the dispatch returns None exactly when the strategy
\* yields no difference; otherwise the first difference alone for
\* single-value data, whatever the strategy, and for iterable data an
\* iterable yielding exactly the strategy's differences in its order.
C30_SingleValueGivesOneDifference ==
    LazyDispatched =>
        \E mo \in SetOrders(MissingElements(data, requirement.elems)),
           eo \in SetOrders(ExtraElements(data, requirement.elems)) :
            LET gen == StrategyRun(mo, eo)
            IN  /\ NoneIffNoDifference(gen)
                /\ gen.items # <<>> =>
                        IF SingleValue
                        THEN /\ result.kind = "single"
                             /\ result.items = <<gen.items[1]>>
                        ELSE SameDifferences(gen)

\* C30 as amended: the dispatch returns None exactly when the strategy
\* completes without a difference; otherwise, for a set requirement and
\* any data, and for the other requirements and iterable data, an iterable
\* yielding exactly the strategy's differences, each once and in the
\* strategy's order; and for a predicate, pattern or equality requirement
\* and single-value data the first (only) difference alone.
C30_DispatchReturnsStrategyDifferences ==
    LazyDispatched =>
        \E mo \in SetOrders(MissingElements(data, requirement.elems)),
           eo \in SetOrders(ExtraElements(data, requirement.elems)) :
            LET gen == StrategyRun(mo, eo)
            IN  /\ NoneIffNoDifference(gen)
                /\ gen.items # <<>> =>
                        IF SingleValue /\ called[1] # "_compare_set"
                        THEN /\ result.kind = "single"
                             /\ result.items = <<gen.items[1]>>
                             /\ Len(gen.items) = 1
                        ELSE SameDifferences(gen)

\* C30 witness: a list compared by equality gave two differences, and the
\* dispatch returned an iterable yielding both.
C30_Witness ==
    /\ LazyDispatched
    /\ called[1] = "_compare_other"
    /\ ~SingleValue
    /\ result.kind = "iter"
    /\ Len(result.items) = 2
    /\ result.items = StrategyRun(<<>>, <<>>).items

\* C30 witness for single-value data: one value against a set requirement
\* gave an iterable of two differences, and one value compared by equality
\* gave the one difference itself.
C30_WitnessSingleSet ==
    /\ LazyDispatched
    /\ called[1] = "_compare_set"
    /\ SingleValue
    /\ result.kind = "iter"
    /\ Len(result.items) = 2

C30_WitnessSingleOther ==
    /\ LazyDispatched
    /\ called[1] = "_compare_other"
    /\ SingleValue
    /\ result.kind = "single"

====
